---- MODULE Spec2Model ----
(***************************************************************************)
(* A model of the krakend-websocket middleware (handler.go): upgrade       *)
(* detection, endpoint configuration, auth header extraction, backend      *)
(* address resolution, and the session lifecycle with its two relay tasks. *)
(*                                                                         *)
(* Go strings are sequences of one-character strings, so that case         *)
(* folding, prefix and substring tests and URL parsing are computed, not   *)
(* assumed.  The modelled alphabet is ASCII letters, digits and            *)
(* - . : / , space * and one control character (tab); URLs carry no        *)
(* query, fragment, userinfo, percent escape or bracketed host.            *)
(***************************************************************************)
EXTENDS Integers, Sequences, FiniteSets, TLC

(***************************************************************************)
(* Bounds of the model.                                                    *)
(***************************************************************************)
\* messages the relay tasks of one session read, both directions together
MaxMsgs == 2
\* requests served by one built handler
MaxRequests == 2
MaxCalls == 3

(***************************************************************************)
(* String constants of handler.go.                                         *)
(***************************************************************************)
UpperLetters == <<"A", "B", "C", "D", "E", "F", "G", "H", "I", "J", "K", "L", "M", "N", "O", "P", "Q", "R", "S", "T", "U", "V", "W", "X", "Y", "Z">>
LowerLetters == <<"a", "b", "c", "d", "e", "f", "g", "h", "i", "j", "k", "l", "m", "n", "o", "p", "q", "r", "s", "t", "u", "v", "w", "x", "y", "z">>
Digits == <<"0", "1", "2", "3", "4", "5", "6", "7", "8", "9">>
sUpgrade == <<"U", "p", "g", "r", "a", "d", "e">>
sConnection == <<"C", "o", "n", "n", "e", "c", "t", "i", "o", "n">>
sSecWebSocketKey == <<"S", "e", "c", "-", "W", "e", "b", "S", "o", "c", "k", "e", "t", "-", "K", "e", "y">>
sWebsocket == <<"w", "e", "b", "s", "o", "c", "k", "e", "t">>
sUpgradeToken == <<"u", "p", "g", "r", "a", "d", "e">>
sPrefixUser == <<"X", "-", "U", "s", "e", "r", "-">>
sPrefixAuth == <<"X", "-", "A", "u", "t", "h", "-">>
sPrefixGroup == <<"X", "-", "G", "r", "o", "u", "p", "-">>
sWs == <<"w", "s">>
sWss == <<"w", "s", "s">>
sHttps == <<"h", "t", "t", "p", "s">>
sSchemeSep == <<":", "/", "/">>
sAlbus == <<"a", "l", "b", "u", "s">>
sAlbusHost == <<"l", "o", "c", "a", "l", "h", "o", "s", "t", ":", "3", "0", "0", "0">>
sDefaultHost == <<"l", "o", "c", "a", "l", "h", "o", "s", "t", ":", "8", "0", "8", "0">>
authHeaderNames ==
  << <<"X", "-", "U", "s", "e", "r", "-", "I", "d">>,
     <<"X", "-", "U", "s", "e", "r", "-", "U", "i", "d">>,
     <<"X", "-", "U", "s", "e", "r", "-", "E", "m", "a", "i", "l">>,
     <<"X", "-", "U", "s", "e", "r", "-", "G", "r", "o", "u", "p", "s">>,
     <<"X", "-", "U", "s", "e", "r", "-", "T", "y", "p", "e">> >>
authHeaderPrefixes == << sPrefixUser, sPrefixAuth, sPrefixGroup >>
defaultMappings == [k \in {sAlbus} |-> sAlbusHost]

(***************************************************************************)
(* The strings package, on sequences of characters.                        *)
(***************************************************************************)
\* the case mappings of ASCII letters, as tables
lowerOf == [c \in {UpperLetters[i] : i \in 1..Len(UpperLetters)} |->
              LowerLetters[CHOOSE i \in 1..Len(UpperLetters) : UpperLetters[i] = c]]
upperOf == [c \in {LowerLetters[i] : i \in 1..Len(LowerLetters)} |->
              UpperLetters[CHOOSE i \in 1..Len(LowerLetters) : LowerLetters[i] = c]]
digitSet == {Digits[i] : i \in 1..Len(Digits)}
IsUpperChar(c) == c \in DOMAIN lowerOf
IsLowerChar(c) == c \in DOMAIN upperOf
IsDigitChar(c) == c \in digitSet
ToLowerChar(c) == IF IsUpperChar(c) THEN lowerOf[c] ELSE c
ToUpperChar(c) == IF IsLowerChar(c) THEN upperOf[c] ELSE c
ToLower(s) == [i \in 1..Len(s) |-> ToLowerChar(s[i])]
ToUpper(s) == [i \in 1..Len(s) |-> ToUpperChar(s[i])]
EqualFold(s, t) == ToLower(s) = ToLower(t)
HasPrefix(s, p) == Len(s) >= Len(p) /\ SubSeq(s, 1, Len(p)) = p
\* index of the first occurrence of sub in s, 0 when there is none
Index(s, sub) ==
  LET at == {i \in 1..(Len(s) - Len(sub) + 1) : SubSeq(s, i, i + Len(sub) - 1) = sub}
  IN IF at = {} THEN 0 ELSE CHOOSE i \in at : \A j \in at : i <= j
LastIndex(s, sub) ==
  LET at == {i \in 1..(Len(s) - Len(sub) + 1) : SubSeq(s, i, i + Len(sub) - 1) = sub}
  IN IF at = {} THEN 0 ELSE CHOOSE i \in at : \A j \in at : i >= j
Contains(s, sub) == Index(s, sub) > 0
\* the part of s from position i (1-based) to its end
From(s, i) == SubSeq(s, i, Len(s))

(***************************************************************************)
(* net/http: Header.Get reads the first value stored under the canonical   *)
(* form of the key; a server stores request headers under canonical keys.  *)
(***************************************************************************)
CanonicalMIMEHeaderKey(s) ==
  [i \in 1..Len(s) |->
     IF i = 1 \/ s[i - 1] = "-" THEN ToUpperChar(s[i]) ELSE ToLowerChar(s[i])]
HeaderGet(h, key) ==
  LET k == CanonicalMIMEHeaderKey(key)
  IN IF k \in DOMAIN h /\ Len(h[k]) > 0 THEN h[k][1] ELSE <<>>

(***************************************************************************)
(* isWebSocketUpgrade                                                      *)
(***************************************************************************)
isWebSocketUpgrade(h) ==
  LET upgrade == ToLower(HeaderGet(h, sUpgrade))
      connection == ToLower(HeaderGet(h, sConnection))
      key == HeaderGet(h, sSecWebSocketKey)
  IN /\ upgrade = sWebsocket
     /\ Contains(connection, sUpgradeToken)
     /\ key # <<>>

(***************************************************************************)
(* extractAuthHeaders                                                      *)
(***************************************************************************)
\* a variant that compares names case-sensitively
MutIsAuthHeaderNameExact(key) ==
  \/ \E i \in 1..Len(authHeaderNames) : key = authHeaderNames[i]
  \/ \E i \in 1..Len(authHeaderPrefixes) : HasPrefix(key, authHeaderPrefixes[i])
IsAuthHeaderName(key) ==
  \/ \E i \in 1..Len(authHeaderNames) : EqualFold(key, authHeaderNames[i])
  \/ \E i \in 1..Len(authHeaderPrefixes) :
       HasPrefix(ToUpper(key), ToUpper(authHeaderPrefixes[i]))
extractAuthHeaders(headers) ==
  [key \in {k \in DOMAIN headers : IsAuthHeaderName(k) /\ Len(headers[k]) > 0}
     |-> headers[key][1]]

(***************************************************************************)
(* net/url, as far as handler.go uses it: Parse and URL.String on the      *)
(* modelled alphabet.  A parsed URL is a record; err is "" on success.     *)
(***************************************************************************)
CtlChar == "\t"
NoURL == [err |-> "", Scheme |-> <<>>, Opaque |-> <<>>, Host |-> <<>>, Path |-> <<>>,
          OmitHost |-> FALSE]
\* getScheme: the length of the scheme (0: none), or -1 for "missing protocol scheme"
RECURSIVE getSchemeLen(_, _)
getSchemeLen(rawURL, i) ==
  IF i > Len(rawURL) THEN 0
  ELSE LET c == rawURL[i]
       IN IF IsUpperChar(c) \/ IsLowerChar(c) THEN getSchemeLen(rawURL, i + 1)
          ELSE IF IsDigitChar(c) \/ c = "+" \/ c = "-" \/ c = "."
            THEN IF i = 1 THEN 0 ELSE getSchemeLen(rawURL, i + 1)
          ELSE IF c = ":" THEN IF i = 1 THEN -1 ELSE i - 1
          ELSE 0
\* the first path segment: s up to its first "/"
FirstSegment(s) == IF Index(s, <<"/">>) = 0 THEN s ELSE SubSeq(s, 1, Index(s, <<"/">>) - 1)
\* validOptionalPort on the text from the last ":" of the host
validOptionalPort(port) ==
  \/ port = <<>>
  \/ /\ port[1] = ":"
     /\ \A i \in 2..Len(port) : IsDigitChar(port[i])
parseHostOk(host) ==
  LastIndex(host, <<":">>) = 0 \/ validOptionalPort(From(host, LastIndex(host, <<":">>)))
urlParse(rawURL) ==
  IF \E i \in 1..Len(rawURL) : rawURL[i] = CtlChar
    THEN [NoURL EXCEPT !.err = "invalid control character in URL"]
  ELSE IF rawURL = <<"*">> THEN [NoURL EXCEPT !.Path = rawURL]
  ELSE IF getSchemeLen(rawURL, 1) = -1
    THEN [NoURL EXCEPT !.err = "missing protocol scheme"]
  ELSE
    LET n == getSchemeLen(rawURL, 1)
        scheme == ToLower(SubSeq(rawURL, 1, n))
        rest == IF n = 0 THEN rawURL ELSE From(rawURL, n + 2)
        u == [NoURL EXCEPT !.Scheme = scheme]
    IN IF ~HasPrefix(rest, <<"/">>) /\ scheme # <<>>
         THEN [u EXCEPT !.Opaque = rest]
       ELSE IF ~HasPrefix(rest, <<"/">>) /\ Contains(FirstSegment(rest), <<":">>)
         THEN [NoURL EXCEPT !.err = "first path segment in URL cannot contain colon"]
       ELSE IF (scheme # <<>> \/ ~HasPrefix(rest, <<"/", "/", "/">>))
                 /\ HasPrefix(rest, <<"/", "/">>)
         THEN LET auth0 == From(rest, 3)
                  cut == Index(auth0, <<"/">>)
                  authority == IF cut = 0 THEN auth0 ELSE SubSeq(auth0, 1, cut - 1)
                  path == IF cut = 0 THEN <<>> ELSE From(auth0, cut)
              IN IF parseHostOk(authority)
                   THEN [u EXCEPT !.Host = authority, !.Path = path]
                   ELSE [NoURL EXCEPT !.err = "invalid port after host"]
       ELSE [u EXCEPT !.Path = rest,
                      !.OmitHost = (scheme # <<>> /\ HasPrefix(rest, <<"/">>))]
urlString(u) ==
  LET head == IF u.Scheme # <<>> THEN u.Scheme \o <<":">> ELSE <<>>
  IN IF u.Opaque # <<>> THEN head \o u.Opaque
     ELSE
       LET auth == IF (u.Scheme # <<>> \/ u.Host # <<>>) /\ ~(u.OmitHost /\ u.Host = <<>>)
                     THEN (IF u.Host # <<>> \/ u.Path # <<>> THEN <<"/", "/">> ELSE <<>>)
                            \o u.Host
                     ELSE <<>>
           buf == head \o auth
           slash == IF u.Path # <<>> /\ u.Path[1] # "/" /\ u.Host # <<>>
                      THEN <<"/">> ELSE <<>>
           dot == IF buf \o slash = <<>> /\ Contains(FirstSegment(u.Path), <<":">>)
                    THEN <<".", "/">> ELSE <<>>
       IN buf \o slash \o dot \o u.Path

(***************************************************************************)
(* Loosely typed configuration values (interface{}): t is the dynamic type *)
(* ("absent" for a missing key), s a string, n2 a float64 in halves, b a   *)
(* bool, l a list of values.                                               *)
(***************************************************************************)
Absent == [t |-> "absent", s |-> <<>>, n2 |-> 0, b |-> FALSE, l |-> <<>>]
VString(str) == [Absent EXCEPT !.t = "string", !.s = str]
VNumber(halves) == [Absent EXCEPT !.t = "number", !.n2 = halves]
VBool(bool) == [Absent EXCEPT !.t = "bool", !.b = bool]
VList(list) == [Absent EXCEPT !.t = "list", !.l = list]
\* Go's int(f) and int64(f): truncation toward zero
TruncHalves(halves) == IF halves >= 0 THEN halves \div 2 ELSE -((-halves) \div 2)

(***************************************************************************)
(* time.ParseDuration on sign, digits and the units ms, s, m, h; the       *)
(* result is in milliseconds, -1 standing for an error.                    *)
(***************************************************************************)
RECURSIVE leadingDigits(_, _)
leadingDigits(s, i) == IF i <= Len(s) /\ IsDigitChar(s[i]) THEN leadingDigits(s, i + 1) ELSE i - 1
RECURSIVE digitsValue(_)
digitsValue(s) ==
  IF s = <<>> THEN 0
  ELSE 10 * digitsValue(SubSeq(s, 1, Len(s) - 1))
         + (CHOOSE d \in 0..9 : Digits[d + 1] = s[Len(s)])
RECURSIVE unitLen(_, _)
unitLen(s, i) == IF i <= Len(s) /\ ~IsDigitChar(s[i]) /\ s[i] # "." THEN unitLen(s, i + 1) ELSE i - 1
unitMillis(u) ==
  IF u = <<"m", "s">> THEN 1
  ELSE IF u = <<"s">> THEN 1000
  ELSE IF u = <<"m">> THEN 60000
  ELSE IF u = <<"h">> THEN 3600000
  ELSE -1
RECURSIVE parseDurationGroups(_)
parseDurationGroups(s) ==
  IF s = <<>> THEN 0
  ELSE LET nd == leadingDigits(s, 1)
           afterNum == From(s, nd + 1)
           nu == unitLen(afterNum, 1)
           unit == unitMillis(SubSeq(afterNum, 1, nu))
           tail == parseDurationGroups(From(afterNum, nu + 1))
       IN IF nd = 0 \/ nu = 0 \/ unit = -1 \/ tail = -1 THEN -1
          ELSE digitsValue(SubSeq(s, 1, nd)) * unit + tail
\* a variant that gives the zero duration for a string it cannot parse
MutParseDurationLenient(str) ==
  IF str # <<>> /\ parseDurationGroups(str) # -1
    THEN [err |-> FALSE, d |-> parseDurationGroups(str)]
    ELSE [err |-> FALSE, d |-> 0]
ParseDuration(str) ==
  LET signed == str # <<>> /\ (str[1] = "-" \/ str[1] = "+")
      neg == signed /\ str[1] = "-"
      s == IF signed THEN Tail(str) ELSE str
      d == parseDurationGroups(s)
  IN IF s = <<"0">> THEN [err |-> FALSE, d |-> 0]
     ELSE IF s = <<>> \/ d = -1 THEN [err |-> TRUE, d |-> 0]
     ELSE [err |-> FALSE, d |-> IF neg THEN -d ELSE d]

(***************************************************************************)
(* parseWebSocketConfig.  The 'websocket' entry of the extra config is     *)
(* ws = [t |-> "absent" | "other" | "map", m |-> the map's values by key]. *)
(***************************************************************************)
\* a variant that returns the defaults where the code returns Config{}
MutZeroConfigDefaults ==
  [ReadBufferSize |-> 1024, WriteBufferSize |-> 1024, HandshakeTimeout |-> 10 * 1000,
   Compression |-> FALSE, Subprotocols |-> <<>>, BackendScheme |-> <<>>,
   MaxMessageSize |-> 1048576]
ZeroConfig ==
  [ReadBufferSize |-> 0, WriteBufferSize |-> 0, HandshakeTimeout |-> 0,
   Compression |-> FALSE, Subprotocols |-> <<>>, BackendScheme |-> <<>>,
   MaxMessageSize |-> 0]
\* a variant whose default message size is 0
MutDefaultConfigNoLimit ==
  [ReadBufferSize |-> 1024, WriteBufferSize |-> 1024, HandshakeTimeout |-> 10 * 1000,
   Compression |-> FALSE, Subprotocols |-> <<>>, BackendScheme |-> <<>>,
   MaxMessageSize |-> 0]
DefaultConfig ==
  [ReadBufferSize |-> 1024, WriteBufferSize |-> 1024, HandshakeTimeout |-> 10 * 1000,
   Compression |-> FALSE, Subprotocols |-> <<>>, BackendScheme |-> <<>>,
   MaxMessageSize |-> 1048576]
NoMap ==
  [read_buffer_size |-> Absent, write_buffer_size |-> Absent, handshake_timeout |-> Absent,
   compression |-> Absent, subprotocols |-> Absent, backend_scheme |-> Absent,
   max_message_size |-> Absent]
RECURSIVE stringItems(_)
stringItems(l) ==
  IF l = <<>> THEN <<>>
  ELSE (IF Head(l).t = "string" THEN <<Head(l).s>> ELSE <<>>) \o stringItems(Tail(l))
\* a variant that takes any 'websocket' entry, map or not, as tunnel configuration
MutParseAnyEntry(ws) ==
  IF ws.t = "absent" THEN [cfg |-> ZeroConfig, ok |-> FALSE]
  ELSE [cfg |-> DefaultConfig, ok |-> TRUE]
parseWebSocketConfig(ws) ==
  IF ws.t # "map" THEN [cfg |-> ZeroConfig, ok |-> FALSE]
  ELSE
    LET m == ws.m
        d == DefaultConfig
    IN [ok |-> TRUE,
        cfg |->
          [ReadBufferSize |->
             IF m.read_buffer_size.t = "number"
               THEN TruncHalves(m.read_buffer_size.n2) ELSE d.ReadBufferSize,
           WriteBufferSize |->
             IF m.write_buffer_size.t = "number"
               THEN TruncHalves(m.write_buffer_size.n2) ELSE d.WriteBufferSize,
           HandshakeTimeout |->
             IF m.handshake_timeout.t = "string" /\ ~ParseDuration(m.handshake_timeout.s).err
               THEN ParseDuration(m.handshake_timeout.s).d ELSE d.HandshakeTimeout,
           Compression |->
             IF m.compression.t = "bool" THEN m.compression.b ELSE d.Compression,
           Subprotocols |->
             IF m.subprotocols.t = "list"
               THEN d.Subprotocols \o stringItems(m.subprotocols.l) ELSE d.Subprotocols,
           BackendScheme |->
             IF m.backend_scheme.t = "string" THEN m.backend_scheme.s ELSE d.BackendScheme,
           MaxMessageSize |->
             IF m.max_message_size.t = "number"
               THEN TruncHalves(m.max_message_size.n2) ELSE d.MaxMessageSize]]

(***************************************************************************)
(* Backend address resolution.  The registry is                            *)
(* [isNil |-> BOOLEAN, Backends |-> a function from names to base URLs];   *)
(* an endpoint is [ws, backend, backend_path, Backend], Backend being the  *)
(* list of [Host |-> list of hosts, URLPattern |-> string].                *)
(***************************************************************************)
NilRegistry == [isNil |-> TRUE, Backends |-> <<>>]
\* a variant that fails on a name neither the registry nor the static table has
MutDeriveFailsOnUnknown(backendName, backendPath, forceScheme, registry) ==
  IF ~registry.isNil /\ backendName \in DOMAIN registry.Backends
    THEN [url |-> registry.Backends[backendName] \o backendPath, err |-> ""]
  ELSE IF backendName \in DOMAIN defaultMappings
    THEN [url |-> (IF forceScheme # <<>> THEN forceScheme ELSE sWs) \o sSchemeSep
                    \o defaultMappings[backendName] \o backendPath,
          err |-> ""]
  ELSE [url |-> <<>>, err |-> "backend not found"]
deriveWebSocketURL(backendName, backendPath, forceScheme, registry) ==
  IF ~registry.isNil /\ backendName \in DOMAIN registry.Backends
    THEN [url |-> registry.Backends[backendName] \o backendPath, err |-> ""]
    ELSE
      LET host == IF backendName \in DOMAIN defaultMappings
                    THEN defaultMappings[backendName] ELSE sDefaultHost
          scheme == IF forceScheme # <<>> THEN forceScheme ELSE sWs
      IN [url |-> scheme \o sSchemeSep \o host \o backendPath, err |-> ""]
\* a variant that maps every host scheme to ws
MutConvertAlwaysWs(httpHost, urlPattern, forceScheme) ==
  IF urlParse(httpHost).err # ""
    THEN [url |-> <<>>, err |-> "failed to parse backend host"]
    ELSE [url |-> (IF forceScheme # <<>> THEN forceScheme ELSE sWs) \o sSchemeSep
                    \o urlParse(httpHost).Host \o urlPattern,
          err |-> ""]
convertHTTPToWebSocketURL(httpHost, urlPattern, forceScheme) ==
  LET parsedURL == urlParse(httpHost)
      scheme == IF forceScheme # <<>> THEN forceScheme
                ELSE IF parsedURL.Scheme = sHttps THEN sWss ELSE sWs
  IN IF parsedURL.err # ""
       THEN [url |-> <<>>, err |-> "failed to parse backend host"]
       ELSE [url |-> scheme \o sSchemeSep \o parsedURL.Host \o urlPattern, err |-> ""]
\* a variant that turns to the backend list when the backend path is missing
MutDerivedURLFallsBack(cfg, wsConfig, registry) ==
  IF cfg.backend.t = "string" /\ cfg.backend_path.t = "string"
    THEN deriveWebSocketURL(cfg.backend.s, cfg.backend_path.s,
                            wsConfig.BackendScheme, registry)
  ELSE IF Len(cfg.Backend) = 0
    THEN [url |-> <<>>, err |-> "no backend configured for WebSocket endpoint"]
  ELSE IF Len(cfg.Backend[1].Host) = 0
    THEN [url |-> <<>>, err |-> "no host configured in backend"]
  ELSE convertHTTPToWebSocketURL(cfg.Backend[1].Host[1], cfg.Backend[1].URLPattern,
                                 wsConfig.BackendScheme)
\* connectToBackend up to the dial: the address derived for the endpoint
derivedURL(cfg, wsConfig, registry) ==
  IF cfg.backend.t = "string"
    THEN IF cfg.backend_path.t = "string"
           THEN deriveWebSocketURL(cfg.backend.s, cfg.backend_path.s,
                                   wsConfig.BackendScheme, registry)
           ELSE [url |-> <<>>, err |-> "no backend_path configured in endpoint"]
  ELSE IF Len(cfg.Backend) = 0
    THEN [url |-> <<>>, err |-> "no backend configured for WebSocket endpoint"]
  ELSE IF Len(cfg.Backend[1].Host) = 0
    THEN [url |-> <<>>, err |-> "no host configured in backend"]
  ELSE convertHTTPToWebSocketURL(cfg.Backend[1].Host[1], cfg.Backend[1].URLPattern,
                                 wsConfig.BackendScheme)
\* the text of the errors connectToBackend returns (for the wrapping errors, the
\* fixed text their message begins with)
ErrorText ==
     ("no backend_path configured in endpoint" :>
       <<"n", "o", " ", "b", "a", "c", "k", "e", "n", "d", "_", "p", "a", "t", "h",
       " ", "c", "o", "n", "f", "i", "g", "u", "r", "e", "d", " ", "i", "n", " ",
       "e", "n", "d", "p", "o", "i", "n", "t">>)
  @@ ("no backend configured for WebSocket endpoint" :>
       <<"n", "o", " ", "b", "a", "c", "k", "e", "n", "d", " ", "c", "o", "n", "f",
       "i", "g", "u", "r", "e", "d", " ", "f", "o", "r", " ", "W", "e", "b", "S",
       "o", "c", "k", "e", "t", " ", "e", "n", "d", "p", "o", "i", "n", "t">>)
  @@ ("no host configured in backend" :>
       <<"n", "o", " ", "h", "o", "s", "t", " ", "c", "o", "n", "f", "i", "g", "u",
       "r", "e", "d", " ", "i", "n", " ", "b", "a", "c", "k", "e", "n", "d">>)
  @@ ("failed to parse backend host" :>
       <<"f", "a", "i", "l", "e", "d", " ", "t", "o", " ", "p", "a", "r", "s", "e",
       " ", "b", "a", "c", "k", "e", "n", "d", " ", "h", "o", "s", "t">>)
  @@ ("failed to parse WebSocket URL" :>
       <<"f", "a", "i", "l", "e", "d", " ", "t", "o", " ", "p", "a", "r", "s", "e",
       " ", "W", "e", "b", "S", "o", "c", "k", "e", "t", " ", "U", "R", "L">>)
  @@ ("failed to connect to backend WebSocket" :>
       <<"f", "a", "i", "l", "e", "d", " ", "t", "o", " ", "c", "o", "n", "n", "e",
       "c", "t", " ", "t", "o", " ", "b", "a", "c", "k", "e", "n", "d", " ", "W",
       "e", "b", "S", "o", "c", "k", "e", "t">>)
\* a variant without the override
MutOverrideSchemeSkipped(wsURL, backendScheme) == [url |-> wsURL, err |-> ""]
\* the override of the scheme by wsConfig.BackendScheme
overrideScheme(wsURL, backendScheme) ==
  IF backendScheme = <<>> THEN [url |-> wsURL, err |-> ""]
  ELSE IF urlParse(wsURL).err # ""
    THEN [url |-> <<>>, err |-> "failed to parse WebSocket URL"]
  ELSE [url |-> urlString([urlParse(wsURL) EXCEPT !.Scheme = backendScheme]), err |-> ""]
\* the URL connectToBackend dials, or the error it returns before dialing
connectToBackendURL(cfg, wsConfig, registry) ==
  LET derived == derivedURL(cfg, wsConfig, registry)
  IN IF derived.err # "" THEN derived
     ELSE overrideScheme(derived.url, wsConfig.BackendScheme)
\* a variant that forwards the X-User- headers only
MutDialHeadersUserOnly(authHeaders) ==
  [key \in {k \in DOMAIN authHeaders : HasPrefix(ToUpper(k), ToUpper(sPrefixUser))}
     |-> <<authHeaders[key]>>]
\* the HTTPHeader of the dial options
dialHeadersOf(authHeaders) == [key \in DOMAIN authHeaders |-> <<authHeaders[key]>>]

(***************************************************************************)
(* InitializeBackendRegistry.  A service config is                         *)
(* [t |-> type of 'websocket_backends', bt |-> type of its 'backends',     *)
(*  m |-> the values of 'backends' by name].                               *)
(***************************************************************************)
\* a variant that adds the configured entries to the registry it finds
MutInitializeBackendRegistryMerges(serviceConfig, registry) ==
  IF serviceConfig.t = "map"
    THEN [isNil |-> FALSE,
          Backends |->
            (IF serviceConfig.bt = "map"
               THEN [name \in {k \in DOMAIN serviceConfig.m : serviceConfig.m[k].t = "string"}
                       |-> serviceConfig.m[name].s]
               ELSE <<>>) @@ registry.Backends]
  ELSE IF registry.isNil THEN [isNil |-> FALSE, Backends |-> <<>>]
  ELSE registry
InitializeBackendRegistry(serviceConfig, registry) ==
  IF serviceConfig.t = "map"
    THEN [isNil |-> FALSE,
          Backends |->
            IF serviceConfig.bt = "map"
              THEN [name \in {k \in DOMAIN serviceConfig.m : serviceConfig.m[k].t = "string"}
                      |-> serviceConfig.m[name].s]
              ELSE <<>>]
  ELSE IF registry.isNil THEN [isNil |-> FALSE, Backends |-> <<>>]
  ELSE registry

(***************************************************************************)
(* Sample inputs of the session model.                                     *)
(***************************************************************************)
sPath == <<"/", "p">>
sHostHttp == <<"h", "t", "t", "p", ":", "/", "/", "h", ":", "1">>
sHostHttps == <<"h", "t", "t", "p", "s", ":", "/", "/", "h">>
sRegistryURL == <<"w", "s", ":", "/", "/", "r", ":", "2">>
sOther == <<"z", "z">>
sXUserId == <<"X", "-", "U", "s", "e", "r", "-", "I", "d">>
sXRandom == <<"X", "-", "R", "a", "n", "d", "o", "m">>
sXAuthToken == <<"X", "-", "A", "u", "t", "h", "-", "T", "o", "k", "e", "n">>
sKeyCanonical == <<"S", "e", "c", "-", "W", "e", "b", "s", "o", "c", "k", "e", "t", "-", "K", "e", "y">>
sU1 == <<"u", "1">>
sT1 == <<"t", "1">>
sX == <<"x">>
sKey == <<"k">>
WsAbsent == [t |-> "absent", m |-> NoMap]
WsOther == [t |-> "other", m |-> NoMap]
WsMap(m) == [t |-> "map", m |-> m]
LegacyBackend(hosts) == << [Host |-> hosts, URLPattern |-> sPath] >>
Endpoints ==
  << \* no tunnel configuration
     [ws |-> WsAbsent, backend |-> Absent, backend_path |-> Absent,
      Backend |-> LegacyBackend(<<sHostHttp>>)],
     \* a 'websocket' entry that is not a map
     [ws |-> WsOther, backend |-> VString(sAlbus), backend_path |-> VString(sPath),
      Backend |-> LegacyBackend(<<sHostHttp>>)],
     \* named backend, max_message_size 0
     [ws |-> WsMap([NoMap EXCEPT !.max_message_size = VNumber(0)]),
      backend |-> VString(sAlbus), backend_path |-> VString(sPath),
      Backend |-> LegacyBackend(<<sHostHttp>>)],
     \* legacy host list, forced scheme, read limit of one byte
     [ws |-> WsMap([NoMap EXCEPT !.backend_scheme = VString(sWs),
                                 !.max_message_size = VNumber(3)]),
      backend |-> Absent, backend_path |-> Absent,
      Backend |-> LegacyBackend(<<sHostHttps>>)],
     \* tunnel endpoint without backends
     [ws |-> WsMap(NoMap), backend |-> VString(sAlbus), backend_path |-> VString(sPath),
      Backend |-> <<>>],
     \* backend name without backend path
     [ws |-> WsMap(NoMap), backend |-> VString(sAlbus), backend_path |-> Absent,
      Backend |-> LegacyBackend(<<sHostHttp>>)],
     \* legacy backend without hosts
     [ws |-> WsMap(NoMap), backend |-> Absent, backend_path |-> Absent,
      Backend |-> LegacyBackend(<<>>)] >>
ServiceConfigs ==
  << [t |-> "map", bt |-> "map",
      m |-> (sAlbus :> VString(sRegistryURL)) @@ (sOther :> VNumber(2))] >>
UpgradeHeaders ==
  (sUpgrade :> <<sWebsocket>>) @@ (sConnection :> <<sUpgrade>>) @@ (sKeyCanonical :> <<sKey>>)
RequestHeaders ==
  << \* an ordinary request carrying an identity header
     (sXUserId :> <<sU1>>),
     \* an upgrade request with identity headers and one other header
     UpgradeHeaders @@ (sXUserId :> <<sU1>>) @@ (sXRandom :> <<sX>>)
       @@ (sXAuthToken :> <<sT1, sX>>),
     \* an upgrade request without identity headers
     UpgradeHeaders >>
Directions == {"client->backend", "backend->client"}
\* what the peers send: the client a one-byte text message first, the backend a
\* two-byte binary message first, each alternating between the two afterwards
TextMessage == [type |-> "text", payload |-> <<1>>]
BinaryMessage == [type |-> "binary", payload |-> <<1, 2>>]
PeerSends(d, i) ==
  IF (i % 2 = 1) <=> (d = "client->backend") THEN TextMessage ELSE BinaryMessage

(***************************************************************************)
(* State.                                                                  *)
(***************************************************************************)
VARIABLES
  registry,      \* globalBackendRegistry
  wrapped,       \* New / NewWithConfig has returned the wrapping factory
  endpoint,      \* cfg of the endpoint the handler was built for
  handler,       \* "none", "standard" (the supplied factory's handler) or "websocket"
  wsConfig,      \* the Config parsed when the handler was built
  factoryCalls,  \* invocations of standardHandlerFactory
  requests,      \* requests served so far
  pc,            \* position of the request's handler goroutine
  reqHeaders,    \* c.Request.Header
  isUpgrade,     \* what isWebSocketUpgrade returned for the request
  stdCalls,      \* invocations of the standard handler for the request
  authHeaders,   \* the map extractAuthHeaders returned
  response,      \* HTTP status written to the caller (0: none)
  acceptCalls,   \* calls of websocket.Accept for the request
  dialCalls,     \* calls of websocket.Dial for the request
  dialURL,       \* the URL given to websocket.Dial
  dialHeaders,   \* DialOptions.HTTPHeader
  connectErr,    \* the error connectToBackend returned ("" for none)
  client,        \* the client leg: [state, closes, readLimit]
  backend,       \* the backend leg
  parentDone,    \* the request's context is cancelled
  connDone,      \* cancel() of connCtx was called
  rpc,           \* position of each relay goroutine
  rmsg,          \* the message a relay task holds between Read and Write
  rerr,          \* the error a relay task is returning, until it is sent
  readSeq,       \* messages each relay task has read from its source
  delivered,     \* messages each relay task has written to its destination
  errChan,       \* the buffered result channel
  args,          \* arguments of a direct call of one function
  ret,           \* its result
  called         \* whether the call has returned
setupVars == <<registry, wrapped, endpoint, handler, wsConfig, factoryCalls>>
reqVars == <<requests, pc, reqHeaders, isUpgrade, stdCalls, authHeaders, response,
             acceptCalls, dialCalls, dialURL, dialHeaders, connectErr>>
connVars == <<client, backend, parentDone, connDone>>
relayVars == <<rpc, rmsg, rerr, readSeq, delivered, errChan>>
callVars == <<args, ret, called>>
vars == <<setupVars, reqVars, connVars, relayVars, callVars>>

NoConn == [state |-> "none", closes |-> <<>>, readLimit |-> 0]
NoMessage == [type |-> "none", payload |-> <<>>]
ctxDone == parentDone \/ connDone
\* the leg a direction reads from and the leg it writes to
SrcLeg(d) == IF d = "client->backend" THEN "client" ELSE "backend"
DestLeg(d) == IF d = "client->backend" THEN "backend" ELSE "client"
LegOf(name) == IF name = "client" THEN client ELSE backend
\* conn.Close(code, reason)
Close(conn, code, reason) ==
  [conn EXCEPT !.state = "closed",
               !.closes = Append(@, [code |-> code, reason |-> reason])]
\* a freshly established connection; SetReadLimit when MaxMessageSize > 0,
\* the library's default limit of 32768 bytes otherwise
OpenConn(maxMessageSize) ==
  [state |-> "open", closes |-> <<>>,
   readLimit |-> IF maxMessageSize > 0 THEN maxMessageSize ELSE 32768]

RequestInit ==
  /\ pc = "idle"
  /\ reqHeaders = <<>>
  /\ isUpgrade = FALSE
  /\ stdCalls = 0
  /\ authHeaders = <<>>
  /\ response = 0
  /\ acceptCalls = 0
  /\ dialCalls = 0
  /\ dialURL = <<>>
  /\ dialHeaders = <<>>
  /\ connectErr = ""
  /\ client = NoConn
  /\ backend = NoConn
  /\ parentDone = FALSE
  /\ connDone = FALSE
  /\ rpc = [d \in Directions |-> "idle"]
  /\ rmsg = [d \in Directions |-> NoMessage]
  /\ rerr = [d \in Directions |-> ""]
  /\ readSeq = [d \in Directions |-> <<>>]
  /\ delivered = [d \in Directions |-> <<>>]
  /\ errChan = <<>>
NoCall ==
  /\ args = <<>>
  /\ ret = <<>>
  /\ called = FALSE
Init ==
  /\ registry = NilRegistry
  /\ wrapped = FALSE
  /\ endpoint = Endpoints[1]
  /\ handler = "none"
  /\ wsConfig = ZeroConfig
  /\ factoryCalls = 0
  /\ requests = 0
  /\ RequestInit
  /\ NoCall

(***************************************************************************)
(* New, NewWithConfig and the factory HandlerWrapper returns.              *)
(***************************************************************************)
New ==
  /\ ~wrapped
  /\ wrapped' = TRUE
  /\ UNCHANGED <<registry, endpoint, handler, wsConfig, factoryCalls>>
  /\ UNCHANGED <<reqVars, connVars, relayVars, callVars>>
NewWithConfig ==
  \E i \in 1..Len(ServiceConfigs) :
    /\ ~wrapped
    /\ registry' = InitializeBackendRegistry(ServiceConfigs[i], registry)
    /\ wrapped' = TRUE
    /\ UNCHANGED <<endpoint, handler, wsConfig, factoryCalls>>
    /\ UNCHANGED <<reqVars, connVars, relayVars, callVars>>
\* a variant that invokes the supplied factory when the handler of a tunnel endpoint
\* is built
MutHandlerWrapperBuildsEagerly ==
  \E i \in 1..Len(Endpoints) :
    LET parsed == parseWebSocketConfig(Endpoints[i].ws)
    IN /\ wrapped
       /\ handler = "none"
       /\ endpoint' = Endpoints[i]
       /\ wsConfig' = parsed.cfg
       /\ handler' = IF parsed.ok THEN "websocket" ELSE "standard"
       /\ factoryCalls' = factoryCalls + 1
       /\ UNCHANGED <<registry, wrapped>>
       /\ UNCHANGED <<reqVars, connVars, relayVars, callVars>>
\* the factory is invoked for an endpoint: the handler is built
HandlerWrapper ==
  \E i \in 1..Len(Endpoints) :
    LET parsed == parseWebSocketConfig(Endpoints[i].ws)
    IN /\ wrapped
       /\ handler = "none"
       /\ endpoint' = Endpoints[i]
       /\ wsConfig' = parsed.cfg
       /\ IF parsed.ok
            THEN /\ handler' = "websocket"
                 /\ factoryCalls' = factoryCalls
            ELSE /\ handler' = "standard"
                 /\ factoryCalls' = factoryCalls + 1
       /\ UNCHANGED <<registry, wrapped>>
       /\ UNCHANGED <<reqVars, connVars, relayVars, callVars>>

(***************************************************************************)
(* A request on the built handler.                                         *)
(***************************************************************************)
\* a non-tunnel endpoint: the handler is the supplied factory's handler
ServeStandard ==
  \E i \in 1..Len(RequestHeaders) :
    /\ handler = "standard"
    /\ pc = "idle"
    /\ requests < MaxRequests
    /\ requests' = requests + 1
    /\ reqHeaders' = RequestHeaders[i]
    /\ stdCalls' = stdCalls + 1
    /\ pc' = "done"
    /\ UNCHANGED <<isUpgrade, authHeaders, response, acceptCalls, dialCalls, dialURL,
                   dialHeaders, connectErr>>
    /\ UNCHANGED <<setupVars, connVars, relayVars, callVars>>
\* a variant that hands every request to handleWebSocketConnection
MutServeWithoutUpgradeCheck ==
  \E i \in 1..Len(RequestHeaders) :
    LET h == RequestHeaders[i]
    IN /\ handler = "websocket"
       /\ pc = "idle"
       /\ requests < MaxRequests
       /\ requests' = requests + 1
       /\ reqHeaders' = h
       /\ isUpgrade' = isWebSocketUpgrade(h)
       /\ authHeaders' = extractAuthHeaders(h)
       /\ IF Len(endpoint.Backend) = 0
            THEN /\ response' = 500
                 /\ pc' = "done"
            ELSE /\ response' = response
                 /\ pc' = "accept"
       /\ UNCHANGED <<stdCalls, acceptCalls, dialCalls, dialURL, dialHeaders, connectErr>>
       /\ UNCHANGED <<setupVars, connVars, relayVars, callVars>>
\* a variant that accepts the upgrade without looking at the backend list
MutServeWithoutBackendCheck ==
  \E i \in 1..Len(RequestHeaders) :
    LET h == RequestHeaders[i]
    IN /\ handler = "websocket"
       /\ pc = "idle"
       /\ requests < MaxRequests
       /\ requests' = requests + 1
       /\ reqHeaders' = h
       /\ isUpgrade' = isWebSocketUpgrade(h)
       /\ IF ~isWebSocketUpgrade(h)
            THEN /\ factoryCalls' = factoryCalls + 1
                 /\ stdCalls' = stdCalls + 1
                 /\ pc' = "done"
                 /\ UNCHANGED <<authHeaders, response>>
            ELSE /\ authHeaders' = extractAuthHeaders(h)
                 /\ pc' = "accept"
                 /\ UNCHANGED <<factoryCalls, stdCalls, response>>
       /\ UNCHANGED <<acceptCalls, dialCalls, dialURL, dialHeaders, connectErr>>
       /\ UNCHANGED <<registry, wrapped, endpoint, handler, wsConfig>>
       /\ UNCHANGED <<connVars, relayVars, callVars>>
\* a tunnel endpoint: the closure of HandlerWrapper, and handleWebSocketConnection
\* up to its call of websocket.Accept
ServeWebSocketEndpoint ==
  \E i \in 1..Len(RequestHeaders) :
    LET h == RequestHeaders[i]
    IN /\ handler = "websocket"
       /\ pc = "idle"
       /\ requests < MaxRequests
       /\ requests' = requests + 1
       /\ reqHeaders' = h
       /\ isUpgrade' = isWebSocketUpgrade(h)
       /\ IF ~isWebSocketUpgrade(h)
            THEN /\ factoryCalls' = factoryCalls + 1
                 /\ stdCalls' = stdCalls + 1
                 /\ pc' = "done"
                 /\ UNCHANGED <<authHeaders, response>>
            ELSE /\ authHeaders' = extractAuthHeaders(h)
                 /\ UNCHANGED <<factoryCalls, stdCalls>>
                 /\ IF Len(endpoint.Backend) = 0
                      THEN /\ response' = 500
                           /\ pc' = "done"
                      ELSE /\ response' = response
                           /\ pc' = "accept"
       /\ UNCHANGED <<acceptCalls, dialCalls, dialURL, dialHeaders, connectErr>>
       /\ UNCHANGED <<registry, wrapped, endpoint, handler, wsConfig>>
       /\ UNCHANGED <<connVars, relayVars, callVars>>
\* a variant that goes on to dial the backend after the failed handshake
MutAcceptFailStillDials ==
  /\ pc = "accept"
  /\ acceptCalls' = acceptCalls + 1
  /\ response' = 400
  /\ dialCalls' = dialCalls + 1
  /\ pc' = "done"
  /\ UNCHANGED <<requests, reqHeaders, isUpgrade, stdCalls, authHeaders,
                 dialURL, dialHeaders, connectErr>>
  /\ UNCHANGED <<setupVars, connVars, relayVars, callVars>>
\* websocket.Accept fails: the upgrade is rejected
AcceptFail ==
  /\ pc = "accept"
  /\ acceptCalls' = acceptCalls + 1
  /\ response' = 400
  /\ pc' = "done"
  /\ UNCHANGED <<requests, reqHeaders, isUpgrade, stdCalls, authHeaders, dialCalls,
                 dialURL, dialHeaders, connectErr>>
  /\ UNCHANGED <<setupVars, connVars, relayVars, callVars>>
\* websocket.Accept succeeds; handleConnectionLifecycle calls connectToBackend, which
\* derives the address and either returns an error or starts the dial
AcceptOk ==
  LET target == connectToBackendURL(endpoint, wsConfig, registry)
      conn == OpenConn(wsConfig.MaxMessageSize)
  IN /\ pc = "accept"
     /\ acceptCalls' = acceptCalls + 1
     /\ response' = 101
     /\ IF target.err # ""
          THEN /\ connectErr' = target.err
               /\ client' = Close(conn, "StatusInternalError", "Backend connection failed")
               /\ pc' = "deferCancel"
               /\ UNCHANGED <<dialCalls, dialURL, dialHeaders>>
          ELSE /\ client' = conn
               /\ dialCalls' = dialCalls + 1
               /\ dialURL' = target.url
               /\ dialHeaders' = dialHeadersOf(authHeaders)
               /\ pc' = "dial"
               /\ UNCHANGED connectErr
     /\ UNCHANGED <<requests, reqHeaders, isUpgrade, stdCalls, authHeaders>>
     /\ UNCHANGED <<backend, parentDone, connDone>>
     /\ UNCHANGED <<setupVars, relayVars, callVars>>
\* a variant that returns on a dial failure without closing the client connection
MutDialFailLeavesClientOpen ==
  /\ pc = "dial"
  /\ connectErr' = "failed to connect to backend WebSocket"
  /\ pc' = "deferCancel"
  /\ UNCHANGED <<requests, reqHeaders, isUpgrade, stdCalls, authHeaders, response,
                 acceptCalls, dialCalls, dialURL, dialHeaders>>
  /\ UNCHANGED <<setupVars, connVars, relayVars, callVars>>
\* a variant that dials a second time after a failed dial
MutDialFailRetries ==
  /\ pc = "dial"
  /\ connectErr' = "failed to connect to backend WebSocket"
  /\ IF dialCalls < 2
       THEN /\ dialCalls' = dialCalls + 1
            /\ pc' = "dial"
            /\ UNCHANGED client
       ELSE /\ client' = Close(client, "StatusInternalError", "Backend connection failed")
            /\ pc' = "deferCancel"
            /\ UNCHANGED dialCalls
  /\ UNCHANGED <<requests, reqHeaders, isUpgrade, stdCalls, authHeaders, response,
                 acceptCalls, dialURL, dialHeaders>>
  /\ UNCHANGED <<backend, parentDone, connDone>>
  /\ UNCHANGED <<setupVars, relayVars, callVars>>
\* websocket.Dial fails (refused, handshake rejected, or the context is cancelled)
DialFail ==
  /\ pc = "dial"
  /\ connectErr' = "failed to connect to backend WebSocket"
  /\ client' = Close(client, "StatusInternalError", "Backend connection failed")
  /\ pc' = "deferCancel"
  /\ UNCHANGED <<requests, reqHeaders, isUpgrade, stdCalls, authHeaders, response,
                 acceptCalls, dialCalls, dialURL, dialHeaders>>
  /\ UNCHANGED <<backend, parentDone, connDone>>
  /\ UNCHANGED <<setupVars, relayVars, callVars>>
\* websocket.Dial succeeds: the two relay goroutines are started
DialOk ==
  /\ pc = "dial"
  /\ ~ctxDone
  /\ backend' = OpenConn(wsConfig.MaxMessageSize)
  /\ rpc' = [d \in Directions |-> "read"]
  /\ pc' = "wait"
  /\ UNCHANGED <<requests, reqHeaders, isUpgrade, stdCalls, authHeaders, response,
                 acceptCalls, dialCalls, dialURL, dialHeaders, connectErr>>
  /\ UNCHANGED <<client, parentDone, connDone>>
  /\ UNCHANGED <<rmsg, rerr, readSeq, delivered, errChan>>
  /\ UNCHANGED <<setupVars, callVars>>

(***************************************************************************)
(* proxyMessages, one goroutine per direction.                             *)
(***************************************************************************)
\* messages the two relay tasks have read so far
MessagesRead == Len(readSeq["client->backend"]) + Len(readSeq["backend->client"])
SetLeg(name, conn) ==
  /\ client' = IF name = "client" THEN conn ELSE client
  /\ backend' = IF name = "backend" THEN conn ELSE backend
MutRelayCtxDoneReturnsNil(d) ==
  /\ rpc[d] = "read"
  /\ ctxDone
  /\ rerr' = [rerr EXCEPT ![d] = ""]
  /\ rpc' = [rpc EXCEPT ![d] = "send"]
  /\ UNCHANGED <<rmsg, readSeq, delivered, errChan>>
  /\ UNCHANGED <<setupVars, reqVars, connVars, callVars>>
\* A task at "read" is at the top of the loop or blocked in src.Read: the select
\* passes to Read without a visible effect when the context has not ended.
\* the select at the top of the loop finds the context ended
RelayCtxDone(d) ==
  /\ rpc[d] = "read"
  /\ ctxDone
  /\ rerr' = [rerr EXCEPT ![d] = "context canceled"]
  /\ rpc' = [rpc EXCEPT ![d] = "send"]
  /\ UNCHANGED <<rmsg, readSeq, delivered, errChan>>
  /\ UNCHANGED <<setupVars, reqVars, connVars, callVars>>
\* src.Read returns a message the peer sent, or fails on one above the read limit
RelayReadMessage(d) ==
    LET src == LegOf(SrcLeg(d))
        m == PeerSends(d, Len(readSeq[d]) + 1)
    IN /\ rpc[d] = "read"
       /\ src.state = "open"
       /\ MessagesRead < MaxMsgs
       /\ IF Len(m.payload) > src.readLimit
            THEN /\ rerr' = [rerr EXCEPT ![d] = "read limited"]
                 /\ rpc' = [rpc EXCEPT ![d] = "send"]
                 /\ SetLeg(SrcLeg(d), [src EXCEPT !.state = "broken"])
                 /\ UNCHANGED <<rmsg, readSeq>>
            ELSE /\ rmsg' = [rmsg EXCEPT ![d] = m]
                 /\ readSeq' = [readSeq EXCEPT ![d] = Append(@, m)]
                 /\ rpc' = [rpc EXCEPT ![d] = "write"]
                 /\ UNCHANGED <<rerr, client, backend>>
       /\ UNCHANGED <<delivered, errChan, parentDone, connDone>>
       /\ UNCHANGED <<setupVars, reqVars, callVars>>
\* src.Read fails: the leg is closed or broken, or the context ended during the read
\* (the library then closes the connection)
RelayReadError(d) ==
  LET src == LegOf(SrcLeg(d))
  IN /\ rpc[d] = "read"
     /\ \/ /\ src.state # "open"
           /\ rerr' = [rerr EXCEPT ![d] = "read failed"]
           /\ UNCHANGED <<client, backend>>
        \/ /\ ctxDone
           /\ rerr' = [rerr EXCEPT ![d] = "read failed: context canceled"]
           /\ SetLeg(SrcLeg(d), IF src.state = "open" THEN [src EXCEPT !.state = "broken"]
                                ELSE src)
     /\ rpc' = [rpc EXCEPT ![d] = "send"]
     /\ UNCHANGED <<rmsg, readSeq, delivered, errChan, parentDone, connDone>>
     /\ UNCHANGED <<setupVars, reqVars, callVars>>
\* a variant that writes each message twice
MutRelayWriteTwice(d) ==
  /\ rpc[d] = "write"
  /\ LegOf(DestLeg(d)).state = "open"
  /\ delivered' = [delivered EXCEPT ![d] = Append(Append(@, rmsg[d]), rmsg[d])]
  /\ rmsg' = [rmsg EXCEPT ![d] = NoMessage]
  /\ rpc' = [rpc EXCEPT ![d] = "read"]
  /\ UNCHANGED <<rerr, readSeq, errChan>>
  /\ UNCHANGED <<setupVars, reqVars, connVars, callVars>>
\* dest.Write succeeds
RelayWriteMessage(d) ==
  /\ rpc[d] = "write"
  /\ LegOf(DestLeg(d)).state = "open"
  /\ delivered' = [delivered EXCEPT ![d] = Append(@, rmsg[d])]
  /\ rmsg' = [rmsg EXCEPT ![d] = NoMessage]
  /\ rpc' = [rpc EXCEPT ![d] = "read"]
  /\ UNCHANGED <<rerr, readSeq, errChan>>
  /\ UNCHANGED <<setupVars, reqVars, connVars, callVars>>
\* dest.Write fails
RelayWriteError(d) ==
  LET dest == LegOf(DestLeg(d))
  IN /\ rpc[d] = "write"
     /\ \/ /\ dest.state # "open"
           /\ rerr' = [rerr EXCEPT ![d] = "write failed"]
           /\ UNCHANGED <<client, backend>>
        \/ /\ ctxDone
           /\ rerr' = [rerr EXCEPT ![d] = "write failed: context canceled"]
           /\ SetLeg(DestLeg(d), IF dest.state = "open" THEN [dest EXCEPT !.state = "broken"]
                                 ELSE dest)
     /\ rmsg' = [rmsg EXCEPT ![d] = NoMessage]
     /\ rpc' = [rpc EXCEPT ![d] = "send"]
     /\ UNCHANGED <<readSeq, delivered, errChan, parentDone, connDone>>
     /\ UNCHANGED <<setupVars, reqVars, callVars>>
\* a variant with room for one result in errChan
\* a variant in which a task reports a second time after its result
MutRelaySendReportsTwice(d) ==
  /\ rpc[d] = "send"
  /\ Len(errChan) < 2
  /\ errChan' = Append(errChan, rerr[d])
  /\ rerr' = [rerr EXCEPT ![d] = ""]
  /\ rpc' = [rpc EXCEPT ![d] = IF rerr[d] # "" THEN "send" ELSE "done"]
  /\ UNCHANGED <<rmsg, readSeq, delivered>>
  /\ UNCHANGED <<setupVars, reqVars, connVars, callVars>>
MutRelaySendOneSlot(d) ==
  /\ rpc[d] = "send"
  /\ Len(errChan) < 1
  /\ errChan' = Append(errChan, rerr[d])
  /\ rerr' = [rerr EXCEPT ![d] = ""]
  /\ rpc' = [rpc EXCEPT ![d] = "done"]
  /\ UNCHANGED <<rmsg, readSeq, delivered>>
  /\ UNCHANGED <<setupVars, reqVars, connVars, callVars>>
\* errChan <- err
RelaySend(d) ==
  /\ rpc[d] = "send"
  /\ Len(errChan) < 2
  /\ errChan' = Append(errChan, rerr[d])
  /\ rerr' = [rerr EXCEPT ![d] = ""]
  /\ rpc' = [rpc EXCEPT ![d] = "done"]
  /\ UNCHANGED <<rmsg, readSeq, delivered>>
  /\ UNCHANGED <<setupVars, reqVars, connVars, callVars>>
Relay ==
  \E d \in Directions :
    \/ RelayCtxDone(d)
    \/ RelayReadMessage(d)
    \/ RelayReadError(d)
    \/ RelayWriteMessage(d)
    \/ RelayWriteError(d)
    \/ RelaySend(d)

(***************************************************************************)
(* The environment: a peer closes its leg or the leg fails, and the        *)
(* inbound request's context is cancelled.                                 *)
(***************************************************************************)
LegFails ==
  \E name \in {"client", "backend"} :
    /\ pc = "wait"
    /\ LegOf(name).state = "open"
    /\ SetLeg(name, [LegOf(name) EXCEPT !.state = "broken"])
    /\ UNCHANGED <<parentDone, connDone>>
    /\ UNCHANGED <<setupVars, reqVars, relayVars, callVars>>
CancelRequest ==
  /\ pc \in {"accept", "dial", "wait"}
  /\ ~parentDone
  /\ parentDone' = TRUE
  /\ UNCHANGED <<client, backend, connDone>>
  /\ UNCHANGED <<setupVars, reqVars, relayVars, callVars>>

(***************************************************************************)
(* handleConnectionLifecycle's select and the deferred calls.              *)
(***************************************************************************)
reqRest == <<requests, reqHeaders, isUpgrade, stdCalls, authHeaders, response,
             acceptCalls, dialCalls, dialURL, dialHeaders, connectErr>>
WaitErr ==
  /\ pc = "wait"
  /\ errChan # <<>>
  /\ errChan' = Tail(errChan)
  /\ pc' = "deferBackendClose"
  /\ UNCHANGED <<rpc, rmsg, rerr, readSeq, delivered>>
  /\ UNCHANGED <<setupVars, reqRest, connVars, callVars>>
WaitCtxDone ==
  /\ pc = "wait"
  /\ ctxDone
  /\ pc' = "deferBackendClose"
  /\ UNCHANGED <<setupVars, reqRest, connVars, relayVars, callVars>>
\* a variant without the deferred backendConn.Close
MutDeferBackendCloseMissing ==
  /\ pc = "deferBackendClose"
  /\ pc' = "deferCancel"
  /\ UNCHANGED <<setupVars, reqRest, connVars, relayVars, callVars>>
DeferBackendClose ==
  /\ pc = "deferBackendClose"
  /\ backend' = Close(backend, "StatusNormalClosure", "Connection closed")
  /\ pc' = "deferCancel"
  /\ UNCHANGED <<client, parentDone, connDone>>
  /\ UNCHANGED <<setupVars, reqRest, relayVars, callVars>>
DeferCancel ==
  /\ pc = "deferCancel"
  /\ connDone' = TRUE
  /\ pc' = "deferClientClose"
  /\ UNCHANGED <<client, backend, parentDone>>
  /\ UNCHANGED <<setupVars, reqRest, relayVars, callVars>>
DeferClientClose ==
  /\ pc = "deferClientClose"
  /\ client' = Close(client, "StatusInternalError", "Internal error")
  /\ pc' = "done"
  /\ UNCHANGED <<backend, parentDone, connDone>>
  /\ UNCHANGED <<setupVars, reqRest, relayVars, callVars>>
\* the handler has returned and the session's goroutines have ended: the next request
NextRequest ==
  /\ pc = "done"
  /\ requests < MaxRequests
  /\ \A d \in Directions : rpc[d] \in {"idle", "done"}
  /\ pc' = "idle"
  /\ reqHeaders' = <<>>
  /\ isUpgrade' = FALSE
  /\ stdCalls' = 0
  /\ authHeaders' = <<>>
  /\ response' = 0
  /\ acceptCalls' = 0
  /\ dialCalls' = 0
  /\ dialURL' = <<>>
  /\ dialHeaders' = <<>>
  /\ connectErr' = ""
  /\ client' = NoConn
  /\ backend' = NoConn
  /\ parentDone' = FALSE
  /\ connDone' = FALSE
  /\ rpc' = [d \in Directions |-> "idle"]
  /\ rmsg' = [d \in Directions |-> NoMessage]
  /\ rerr' = [d \in Directions |-> ""]
  /\ readSeq' = [d \in Directions |-> <<>>]
  /\ delivered' = [d \in Directions |-> <<>>]
  /\ errChan' = <<>>
  /\ UNCHANGED requests
  /\ UNCHANGED <<setupVars, callVars>>

Next ==
  \/ New
  \/ NewWithConfig
  \/ HandlerWrapper
  \/ ServeStandard
  \/ ServeWebSocketEndpoint
  \/ AcceptFail
  \/ AcceptOk
  \/ DialFail
  \/ DialOk
  \/ Relay
  \/ LegFails
  \/ CancelRequest
  \/ WaitErr
  \/ WaitCtxDone
  \/ DeferBackendClose
  \/ DeferCancel
  \/ DeferClientClose
  \/ NextRequest
Spec == Init /\ [][Next]_vars

(***************************************************************************)
(* Direct calls of single functions, as the package's tests make them:     *)
(* Init draws the arguments, the action applies the function.              *)
(***************************************************************************)
Idle ==
  /\ registry = NilRegistry
  /\ wrapped = FALSE
  /\ endpoint = Endpoints[1]
  /\ handler = "none"
  /\ wsConfig = ZeroConfig
  /\ factoryCalls = 0
  /\ requests = 0
  /\ RequestInit
Call(result) ==
  /\ ~called
  /\ ret' = result
  /\ called' = TRUE
  /\ UNCHANGED <<args, setupVars, reqVars, connVars, relayVars>>

sWebSocketMixed == <<"W", "e", "b", "S", "o", "c", "k", "e", "t">>
sHttp2 == <<"h", "t", "t", "p", "2">>
sWebsocket2 == <<"w", "e", "b", "s", "o", "c", "k", "e", "t", "2">>
sUpgradeLower == <<"u", "p", "g", "r", "a", "d", "e">>
sKeepAliveUpgrade == <<"k", "e", "e", "p", "-", "a", "l", "i", "v", "e", ",", " ", "U", "p", "g", "r", "a", "d", "e">>
sKeepAlive == <<"k", "e", "e", "p", "-", "a", "l", "i", "v", "e">>
sUpgradeInsecure == <<"U", "p", "g", "r", "a", "d", "e", "-", "I", "n", "s", "e", "c", "u", "r", "e", "-", "R", "e", "q", "u", "e", "s", "t", "s">>
\* isWebSocketUpgrade(r): the request's headers, each header absent or with the
\* listed values
UpgradeValues == << <<>>, <<sWebsocket>>, <<sWebSocketMixed>>, <<sHttp2>>, <<sWebsocket2>> >>
ConnectionValues ==
  << <<>>, <<sUpgrade>>, <<sUpgradeLower>>, <<sKeepAliveUpgrade>>, <<sKeepAlive>>,
     <<sUpgradeInsecure>>, <<sKeepAlive, sUpgrade>> >>
KeyValues == << <<>>, <<sKey>>, << <<>> >> >>
HeaderOf(name, values) == IF values = <<>> THEN <<>> ELSE (name :> values)
InitUpgrade ==
  /\ Idle
  /\ \E i \in 1..Len(UpgradeValues), j \in 1..Len(ConnectionValues), k \in 1..Len(KeyValues) :
       args = HeaderOf(sUpgrade, UpgradeValues[i])
                @@ HeaderOf(sConnection, ConnectionValues[j])
                @@ HeaderOf(sKeyCanonical, KeyValues[k])
  /\ ret = FALSE
  /\ called = FALSE
CallIsWebSocketUpgrade == Call(isWebSocketUpgrade(args))
SpecUpgrade == InitUpgrade /\ [][CallIsWebSocketUpgrade]_vars

sXUserIdLower == <<"x", "-", "u", "s", "e", "r", "-", "i", "d">>
sXUserIdUpper == <<"X", "-", "U", "S", "E", "R", "-", "I", "D">>
sXUserName == <<"X", "-", "U", "s", "e", "r", "-", "N", "a", "m", "e">>
sXUserid == <<"X", "-", "U", "s", "e", "r", "i", "d">>
sXGroupId == <<"X", "-", "G", "r", "o", "u", "p", "-", "I", "d">>
sAuthorization == <<"A", "u", "t", "h", "o", "r", "i", "z", "a", "t", "i", "o", "n">>
sXAuth == <<"X", "-", "A", "u", "t", "h">>
sAXUserId == <<"A", "-", "X", "-", "U", "s", "e", "r", "-", "I", "d">>
\* extractAuthHeaders(headers): maps of up to three of the listed headers
HeaderNames ==
  << sXUserId, sXUserIdLower, sXUserIdUpper, sXUserName, sXUserid, sXGroupId,
     sXAuthToken, sXRandom, sAuthorization, sXAuth, sAXUserId >>
HeaderValues == << <<sU1>>, <<sT1, sX>>, <<>> >>
ExampleHeaders == (sXUserId :> <<sU1>>) @@ (sXRandom :> <<sX>>) @@ (sXAuthToken :> <<sT1>>)
InitExtract ==
  /\ Idle
  /\ \/ args = ExampleHeaders
     \/ \E i, j \in 1..Len(HeaderNames), v, w \in 1..Len(HeaderValues) :
          args = (HeaderNames[i] :> HeaderValues[v]) @@ (HeaderNames[j] :> HeaderValues[w])
  /\ ret = <<>>
  /\ called = FALSE
CallExtractAuthHeaders == Call(extractAuthHeaders(args))
SpecExtract == InitExtract /\ [][CallExtractAuthHeaders]_vars

sSvc == <<"s", "v", "c">>
sLongPath == <<"/", "a", "p", "i", "/", "v", "1", "/", "t", "e", "s", "t", "/">>
sRegistryHTTP == <<"h", "t", "t", "p", ":", "/", "/", "r">>
sRegistryBare == <<"r", ":", "2">>
sRegistryNumeric == <<"1", ".", "2", ":", "3">>
sHostBare == <<"h", ":", "1">>
sHostBadPort == <<"h", "t", "t", "p", ":", "/", "/", "h", ":", "x">>
sHostNumeric == <<"1", ".", "2", ":", "3">>
\* deriveWebSocketURL(backendName, backendPath, forceScheme)
Registries ==
  << NilRegistry,
     [isNil |-> FALSE, Backends |-> <<>>],
     [isNil |-> FALSE, Backends |-> (sAlbus :> sRegistryURL)],
     [isNil |-> FALSE, Backends |-> (sAlbus :> sRegistryHTTP) @@ (sSvc :> sRegistryBare)],
     [isNil |-> FALSE, Backends |-> (sSvc :> sRegistryNumeric)] >>
BackendNames == << sAlbus, sSvc, sOther >>
BackendPaths == << sPath, sLongPath, <<>> >>
ForceSchemes == << <<>>, sWs, sWss >>
InitDerive ==
  /\ Idle
  /\ \E n \in 1..Len(BackendNames), p \in 1..Len(BackendPaths),
        f \in 1..Len(ForceSchemes), r \in 1..Len(Registries) :
       args = [backendName |-> BackendNames[n], backendPath |-> BackendPaths[p],
               forceScheme |-> ForceSchemes[f], registry |-> Registries[r]]
  /\ ret = [url |-> <<>>, err |-> ""]
  /\ called = FALSE
CallDeriveWebSocketURL ==
  Call(deriveWebSocketURL(args.backendName, args.backendPath, args.forceScheme,
                          args.registry))
SpecDerive == InitDerive /\ [][CallDeriveWebSocketURL]_vars

\* connectToBackend(ctx, cfg, wsConfig, authHeaders), called on its own
NamedEndpoint(name, path) ==
  [ws |-> WsMap(NoMap), backend |-> name, backend_path |-> path, Backend |-> <<>>]
LegacyEndpoint(backends) ==
  [ws |-> WsMap(NoMap), backend |-> Absent, backend_path |-> Absent, Backend |-> backends]
ConnectEndpoints ==
  << NamedEndpoint(VString(sAlbus), VString(sPath)),
     NamedEndpoint(VString(sSvc), VString(sLongPath)),
     NamedEndpoint(VString(sOther), VString(sPath)),
     NamedEndpoint(VString(sAlbus), Absent),
     NamedEndpoint(VString(sAlbus), VNumber(2)),
     NamedEndpoint(VNumber(2), VString(sPath)),
     LegacyEndpoint(<<>>),
     LegacyEndpoint(LegacyBackend(<<>>)),
     LegacyEndpoint(LegacyBackend(<<sHostHttp>>)),
     LegacyEndpoint(LegacyBackend(<<sHostHttps, sHostHttp>>)),
     LegacyEndpoint(LegacyBackend(<<sHostHttp>>) \o LegacyBackend(<<sHostHttps>>)),
     LegacyEndpoint(LegacyBackend(<<sHostBare>>)),
     LegacyEndpoint(LegacyBackend(<<sHostBadPort>>)),
     LegacyEndpoint(LegacyBackend(<<sHostNumeric>>)),
     [NamedEndpoint(VString(sAlbus), Absent)
        EXCEPT !.Backend = LegacyBackend(<<sHostHttp>>)],
     [NamedEndpoint(VString(sSvc), VBool(TRUE))
        EXCEPT !.Backend = LegacyBackend(<<sHostHttps>>)] >>
InitConnect ==
  /\ \E r \in 1..Len(Registries) : registry = Registries[r]
  /\ wrapped = FALSE
  /\ \E e \in 1..Len(ConnectEndpoints) : endpoint = ConnectEndpoints[e]
  /\ handler = "none"
  /\ \E f \in 1..Len(ForceSchemes) :
       wsConfig = [ZeroConfig EXCEPT !.BackendScheme = ForceSchemes[f]]
  /\ factoryCalls = 0
  /\ requests = 0
  /\ RequestInit
  /\ args = (sXUserId :> sU1)
  /\ ret = ""
  /\ called = FALSE
\* connectToBackend up to websocket.Dial
ConnectToBackend ==
  LET target == connectToBackendURL(endpoint, wsConfig, registry)
  IN /\ ~called
     /\ pc = "idle"
     /\ IF target.err # ""
          THEN /\ ret' = target.err
               /\ called' = TRUE
               /\ UNCHANGED <<pc, dialCalls, dialURL, dialHeaders>>
          ELSE /\ dialCalls' = dialCalls + 1
               /\ dialURL' = target.url
               /\ dialHeaders' = dialHeadersOf(args)
               /\ pc' = "dial"
               /\ UNCHANGED <<ret, called>>
     /\ UNCHANGED <<requests, reqHeaders, isUpgrade, stdCalls, authHeaders, response,
                    acceptCalls, connectErr>>
     /\ UNCHANGED <<args, setupVars, connVars, relayVars>>
\* websocket.Dial returns: the connection with its read limit, or the wrapped error
ConnectDialReturns ==
  \E ok \in BOOLEAN :
    /\ ~called
    /\ pc = "dial"
    /\ IF ok
         THEN /\ backend' = OpenConn(wsConfig.MaxMessageSize)
              /\ ret' = ""
         ELSE /\ backend' = backend
              /\ ret' = "failed to connect to backend WebSocket"
    /\ called' = TRUE
    /\ pc' = "idle"
    /\ UNCHANGED <<requests, reqHeaders, isUpgrade, stdCalls, authHeaders, response,
                   acceptCalls, dialCalls, dialURL, dialHeaders, connectErr>>
    /\ UNCHANGED <<client, parentDone, connDone>>
    /\ UNCHANGED <<args, setupVars, relayVars>>
NextConnect == ConnectToBackend \/ ConnectDialReturns
SpecConnect == InitConnect /\ [][NextConnect]_vars

\* parseWebSocketConfig(extraConfig): the 'websocket' entry absent, not a map, or a
\* map with each key absent, of the shape the code asserts, or of another shape
InitParse ==
  /\ Idle
  /\ \/ args = WsAbsent
     \/ args = WsOther
     \/ \E r \in {Absent, VNumber(8192), VNumber(0), VString(<<"4", "0", "9", "6">>)},
           w \in {Absent, VNumber(5), VNumber(-4), VBool(TRUE)},
           h \in {Absent, VString(<<"3", "0", "s">>), VNumber(60),
                  VString(<<"i", "n", "v", "a", "l", "i", "d">>)},
           c \in {Absent, VBool(TRUE), VString(<<"t", "r", "u", "e">>)},
           p \in {Absent, VString(<<"c">>),
                  VList(<<VString(<<"c">>), VNumber(2), VString(<<"v", "2">>)>>)},
           b \in {Absent, VString(sWss), VBool(TRUE)},
           x \in {Absent, VNumber(-3), VList(<<>>)} :
          args = WsMap([read_buffer_size |-> r, write_buffer_size |-> w,
                        handshake_timeout |-> h, compression |-> c, subprotocols |-> p,
                        backend_scheme |-> b, max_message_size |-> x])
  /\ ret = [cfg |-> ZeroConfig, ok |-> FALSE]
  /\ called = FALSE
CallParseWebSocketConfig == Call(parseWebSocketConfig(args))
SpecParse == InitParse /\ [][CallParseWebSocketConfig]_vars

\* InitializeBackendRegistry(serviceConfig) and NewWithConfig(..., serviceConfig),
\* called one after the other on the package's registry; args is the list of the
\* service configs passed so far
RegistryConfigs ==
  << \* no 'websocket_backends' entry
     [t |-> "absent", bt |-> "absent", m |-> <<>>],
     \* a 'websocket_backends' entry that is not a map
     [t |-> "other", bt |-> "absent", m |-> <<>>],
     \* a 'websocket_backends' map without 'backends'
     [t |-> "map", bt |-> "absent", m |-> <<>>],
     [t |-> "map", bt |-> "map",
      m |-> (sAlbus :> VString(sRegistryURL)) @@ (sOther :> VNumber(2))],
     [t |-> "map", bt |-> "map", m |-> (sSvc :> VString(sRegistryHTTP))] >>
InitRegistry ==
  /\ Idle
  /\ NoCall
CallInitializeBackendRegistry ==
  \E i \in 1..Len(RegistryConfigs) :
    /\ Len(args) < MaxCalls
    /\ registry' = InitializeBackendRegistry(RegistryConfigs[i], registry)
    /\ args' = Append(args, RegistryConfigs[i])
    /\ called' = TRUE
    /\ UNCHANGED <<wrapped, endpoint, handler, wsConfig, factoryCalls, ret>>
    /\ UNCHANGED <<reqVars, connVars, relayVars>>
CallNewWithConfig ==
  \E i \in 1..Len(RegistryConfigs) :
    /\ Len(args) < MaxCalls
    /\ registry' = InitializeBackendRegistry(RegistryConfigs[i], registry)
    /\ wrapped' = TRUE
    /\ args' = Append(args, RegistryConfigs[i])
    /\ called' = TRUE
    /\ UNCHANGED <<endpoint, handler, wsConfig, factoryCalls, ret>>
    /\ UNCHANGED <<reqVars, connVars, relayVars>>
NextRegistry == CallInitializeBackendRegistry \/ CallNewWithConfig
SpecRegistry == InitRegistry /\ [][NextRegistry]_vars

(***************************************************************************)
(* Scheduling: a goroutine that can run does run.  A relay task's select   *)
(* and its send to errChan do not block; a Read on a leg that is closed    *)
(* or broken, or under an ended context, returns; a Write returns; the     *)
(* lifecycle function's select and the deferred calls run.  A Read on a    *)
(* healthy leg may block for ever: the peers owe no message.               *)
(***************************************************************************)
Lifecycle ==
  WaitErr \/ WaitCtxDone \/ DeferBackendClose \/ DeferCancel \/ DeferClientClose
FairSpec ==
  /\ Spec
  /\ WF_vars(Lifecycle)
  /\ \A d \in Directions :
       /\ WF_vars(RelayCtxDone(d))
       /\ WF_vars(RelayReadError(d))
       /\ WF_vars(RelayWriteMessage(d))
       /\ WF_vars(RelayWriteError(d))
       /\ WF_vars(RelaySend(d))

(***************************************************************************)
(* Properties.                                                             *)
(***************************************************************************)
\* Close has been invoked on both legs
BothClosed == client.closes # <<>> /\ backend.closes # <<>>
\* the session is relaying and one of its legs is closed or broken
LegDown == pc = "wait" /\ (client.state # "open" \/ backend.state # "open")

\* C1: once a session is relaying, a close or error on either leg leads to the
\* return of the lifecycle functions, and when they have returned Close has been
\* invoked on the client and on the backend connection.
C1_BothLegsClosed ==
  /\ [](pc = "done" /\ backend.state # "none" => BothClosed)
  /\ (LegDown ~> (pc = "done" /\ BothClosed))
\* a session without a read limit in reach and without a cancelled request ends
\* after relaying a message: a leg failed and both legs were closed
C1_Witness ==
  /\ pc = "done"
  /\ BothClosed
  /\ endpoint = Endpoints[3]
  /\ delivered["client->backend"] # <<>>
  /\ ~parentDone

IsPrefix(s, t) == Len(s) <= Len(t) /\ SubSeq(t, 1, Len(s)) = s
\* C2: in each direction the messages written are a prefix of the messages read,
\* and at most one message read is not yet written.
C2_RelayInOrder ==
  \A d \in Directions :
    /\ IsPrefix(delivered[d], readSeq[d])
    /\ Len(readSeq[d]) <= Len(delivered[d]) + 1
C2_Witness ==
  \E d \in Directions :
    /\ Len(delivered[d]) = 2
    /\ delivered[d][1] # delivered[d][2]

\* C3: when connectToBackend fails, the client connection is closed with
\* StatusInternalError, no relay task is started and no backend connection exists;
\* when the failure is one of address resolution, nothing was dialed.
C3_ConnectFailure ==
  connectErr # "" =>
    /\ client.closes # <<>>
    /\ \A i \in 1..Len(client.closes) : client.closes[i].code = "StatusInternalError"
    /\ \A d \in Directions : rpc[d] = "idle"
    /\ backend.state = "none"
    /\ (connectErr # "failed to connect to backend WebSocket" => dialCalls = 0)
C3_Witness ==
  /\ pc = "done"
  /\ connectErr = "no backend_path configured in endpoint"
  /\ client.state = "closed"

\* C4: on a tunnel endpoint a request that is not an upgrade goes once to the
\* standard handler and is never accepted or dialed for; an upgrade request never
\* reaches the standard handler; no accept or dial exists for a non-upgrade request.
C4_Dispatch ==
  /\ (acceptCalls > 0 \/ dialCalls > 0) => isUpgrade
  /\ handler = "websocket" /\ pc # "idle" =>
       IF isUpgrade
         THEN stdCalls = 0
         ELSE /\ stdCalls = 1
              /\ acceptCalls = 0
              /\ dialCalls = 0
              /\ client.state = "none"
              /\ backend.state = "none"
C4_Witness ==
  /\ handler = "websocket"
  /\ pc = "done"
  /\ ~isUpgrade
  /\ reqHeaders = RequestHeaders[1]
  /\ stdCalls = 1
  /\ requests = 2

\* C5: for an endpoint whose 'websocket' entry is absent or not a map the built
\* handler is the supplied factory's handler, which handles every request, upgrade
\* requests included; nothing is accepted or dialed.
C5_Transparent ==
  handler # "none" /\ endpoint.ws.t # "map" =>
    /\ handler = "standard"
    /\ factoryCalls = 1
    /\ acceptCalls = 0
    /\ dialCalls = 0
    /\ response = 0
    /\ client.state = "none"
    /\ (pc = "done" => stdCalls = 1)
C5_Witness ==
  /\ handler = "standard"
  /\ endpoint.ws.t = "other"
  /\ pc = "done"
  /\ isWebSocketUpgrade(reqHeaders)
  /\ stdCalls = 1

\* the entries of a comma-separated list, without the spaces around them
RECURSIVE TrimSpace(_)
TrimSpace(s) ==
  IF s # <<>> /\ Head(s) = " " THEN TrimSpace(Tail(s))
  ELSE IF s # <<>> /\ s[Len(s)] = " " THEN TrimSpace(SubSeq(s, 1, Len(s) - 1))
  ELSE s
RECURSIVE CommaEntries(_)
CommaEntries(s) ==
  IF Index(s, <<",">>) = 0 THEN {TrimSpace(s)}
  ELSE {TrimSpace(SubSeq(s, 1, Index(s, <<",">>) - 1))}
         \cup CommaEntries(From(s, Index(s, <<",">>) + 1))
UpgradeRequested(h) ==
  /\ EqualFold(HeaderGet(h, sUpgrade), sWebsocket)
  /\ \E entry \in CommaEntries(HeaderGet(h, sConnection)) : EqualFold(entry, sUpgradeToken)
  /\ HeaderGet(h, sSecWebSocketKey) # <<>>
\* C6: isWebSocketUpgrade returns true exactly when Upgrade equals "websocket"
\* ignoring case, an entry of the comma-separated Connection header equals "upgrade"
\* ignoring case, and Sec-WebSocket-Key is present and not empty.
C6_UpgradeIff == called => (ret <=> UpgradeRequested(args))

\* C7: the headers of the dial are the auth headers extracted from the request that
\* started the session, each with its one value, and the extracted map stays what
\* it was for the rest of the session.
C7_DialHeaders ==
  handler = "websocket" /\ isUpgrade /\ pc # "idle" =>
    /\ authHeaders = extractAuthHeaders(reqHeaders)
    /\ dialCalls > 0 =>
         /\ DOMAIN dialHeaders = DOMAIN authHeaders
         /\ \A key \in DOMAIN authHeaders : dialHeaders[key] = <<authHeaders[key]>>
C7_Witness ==
  /\ dialCalls > 0
  /\ pc = "done"
  /\ DOMAIN dialHeaders = {sXUserId, sXAuthToken}
  /\ dialHeaders[sXAuthToken] = <<sT1>>

\* a name that equals a fixed identity header name or begins with a fixed prefix,
\* ignoring case
IdentityName(name) ==
  \/ \E i \in 1..Len(authHeaderNames) : ToLower(name) = ToLower(authHeaderNames[i])
  \/ HasPrefix(ToLower(name), ToLower(sPrefixUser))
  \/ HasPrefix(ToLower(name), ToLower(sPrefixAuth))
  \/ HasPrefix(ToLower(name), ToLower(sPrefixGroup))
\* C8: extractAuthHeaders returns an entry for a header (a name with at least one
\* value) exactly when the name is an identity name, the entry being the header's
\* first value; a name without values gets no entry; of X-User-Id, X-Random and
\* X-Auth-Token exactly X-User-Id and X-Auth-Token are returned.
C8_ExtractAuthHeaders ==
  called =>
    /\ DOMAIN ret \subseteq DOMAIN args
    /\ \A name \in DOMAIN args :
         IF Len(args[name]) > 0 /\ IdentityName(name)
           THEN name \in DOMAIN ret /\ ret[name] = args[name][1]
           ELSE name \notin DOMAIN ret
    /\ args = ExampleHeaders => DOMAIN ret = {sXUserId, sXAuthToken}
C8_Witness ==
  /\ called
  /\ args = ExampleHeaders
  /\ ret = (sXUserId :> sU1) @@ (sXAuthToken :> sT1)

\* C9: deriveWebSocketURL never returns an error; a name the registry has gives
\* registry[name] followed by the path, any other name gives the scheme, "://", the
\* host of the static table or else localhost:8080, and the path.
C9_NamedBackendNeverFails ==
  called =>
    /\ ret.err = ""
    /\ ret.url =
         IF ~args.registry.isNil /\ args.backendName \in DOMAIN args.registry.Backends
           THEN args.registry.Backends[args.backendName] \o args.backendPath
           ELSE (IF args.forceScheme = <<>> THEN sWs ELSE args.forceScheme) \o sSchemeSep
                  \o (IF args.backendName = sAlbus THEN sAlbusHost ELSE sDefaultHost)
                  \o args.backendPath
C9_Witness ==
  /\ called
  /\ args.backendName = sOther
  /\ args.backendPath = sLongPath
  /\ args.registry.isNil
  /\ ret.url = sWs \o sSchemeSep \o sDefaultHost \o sLongPath

\* the text of a URL before its first ":"
SchemeText(url) == IF Index(url, <<":">>) = 0 THEN <<>> ELSE SubSeq(url, 1, Index(url, <<":">>) - 1)
\* C10: the URL dialed has the scheme of wsConfig.BackendScheme when that is not
\* empty, whatever was derived; when it is empty the derived URL is dialed as it is.
C10_ForcedScheme ==
  dialCalls > 0 =>
    IF wsConfig.BackendScheme # <<>>
      THEN SchemeText(dialURL) = wsConfig.BackendScheme
      ELSE dialURL = derivedURL(endpoint, wsConfig, registry).url
C10_Witness ==
  /\ dialCalls > 0
  /\ wsConfig.BackendScheme = sWs
  /\ endpoint.backend = VString(sAlbus)
  /\ ~registry.isNil
  /\ sAlbus \in DOMAIN registry.Backends
  /\ registry.Backends[sAlbus] = sRegistryHTTP
  /\ dialURL = sWs \o sSchemeSep \o <<"r">> \o sPath

sHttpPrefix == <<"h", "t", "t", "p", ":", "/", "/">>
sHttpsPrefix == <<"h", "t", "t", "p", "s", ":", "/", "/">>
\* the endpoint has the legacy shape and no scheme is forced
LegacyUnforced == endpoint.backend.t # "string" /\ wsConfig.BackendScheme = <<>>
\* C11: for the legacy host list without a forced scheme, connectToBackend returns
\* an error without dialing when the backend list or the first backend's host list
\* is empty or the first host does not parse; otherwise an https host gives
\* wss://, an http host ws://, followed by the first host's authority and the
\* URL pattern, whatever the other hosts and backends are.
C11_LegacyHostList ==
  LegacyUnforced /\ (called \/ pc = "dial") =>
    IF \/ Len(endpoint.Backend) = 0
       \/ Len(endpoint.Backend[1].Host) = 0
       \/ urlParse(endpoint.Backend[1].Host[1]).err # ""
      THEN dialCalls = 0 /\ called /\ ret # ""
      ELSE LET host == endpoint.Backend[1].Host[1]
               pattern == endpoint.Backend[1].URLPattern
           IN /\ dialCalls = 1
              /\ HasPrefix(host, sHttpsPrefix) =>
                   dialURL = sWss \o sSchemeSep \o From(host, Len(sHttpsPrefix) + 1) \o pattern
              /\ HasPrefix(host, sHttpPrefix) =>
                   dialURL = sWs \o sSchemeSep \o From(host, Len(sHttpPrefix) + 1) \o pattern
C11_Witness ==
  /\ LegacyUnforced
  /\ pc = "dial"
  /\ endpoint.Backend = LegacyBackend(<<sHostHttps, sHostHttp>>)
  /\ dialURL = <<"w", "s", "s", ":", "/", "/", "h", "/", "p">>

\* C12: connectToBackend for the named backend "albus" with a path, the forced
\* scheme "ws" and no registry entry for "albus" dials ws://localhost:8080 followed
\* by the path.
C12_AlbusDialsDefaultHost ==
  /\ pc = "dial"
  /\ endpoint.backend = VString(sAlbus)
  /\ endpoint.backend_path.t = "string"
  /\ wsConfig.BackendScheme = sWs
  /\ (registry.isNil \/ sAlbus \notin DOMAIN registry.Backends)
  => dialURL = sWs \o sSchemeSep \o sDefaultHost \o endpoint.backend_path.s

sNoBackendName ==
  <<"n", "o", " ", "b", "a", "c", "k", "e", "n", "d", " ", "n", "a", "m", "e", " ",
  "c", "o", "n", "f", "i", "g", "u", "r", "e", "d">>
\* C13: connectToBackend on an endpoint with no backend name in its extra config and
\* an empty backend list returns, without dialing, an error whose message contains
\* "no backend name configured".
C13_NoBackendNameError ==
  called /\ endpoint.backend.t # "string" /\ Len(endpoint.Backend) = 0 =>
    /\ dialCalls = 0
    /\ ret \in DOMAIN ErrorText
    /\ Contains(ErrorText[ret], sNoBackendName)

\* the documented defaults: buffers of 1024, 10 s (in milliseconds), compression off,
\* no subprotocol, no forced scheme, 1 MiB
DocumentedDefaults ==
  [ReadBufferSize |-> 1024, WriteBufferSize |-> 1024, HandshakeTimeout |-> 10000,
   Compression |-> FALSE, Subprotocols |-> <<>>, BackendScheme |-> <<>>,
   MaxMessageSize |-> 1024 * 1024]
\* the key of each field
FieldKey ==
  [ReadBufferSize |-> "read_buffer_size", WriteBufferSize |-> "write_buffer_size",
   HandshakeTimeout |-> "handshake_timeout", Compression |-> "compression",
   Subprotocols |-> "subprotocols", BackendScheme |-> "backend_scheme",
   MaxMessageSize |-> "max_message_size"]
\* C14: for a 'websocket' map parseWebSocketConfig reports presence; a field whose
\* key is absent has its documented default; every field is what the call on the map
\* holding that field's key alone gives, so the other keys do not touch it; and
\* {compression: true} alone gives the defaults with compression on.
C14_DefaultsAndIndependence ==
  called /\ args.t = "map" =>
    /\ ret.ok
    /\ \A f \in DOMAIN FieldKey :
         /\ args.m[FieldKey[f]] = Absent => ret.cfg[f] = DocumentedDefaults[f]
         /\ ret.cfg[f] =
              parseWebSocketConfig(
                WsMap([NoMap EXCEPT ![FieldKey[f]] = args.m[FieldKey[f]]])).cfg[f]
    /\ args.m = [NoMap EXCEPT !.compression = VBool(TRUE)] =>
         ret.cfg = [DocumentedDefaults EXCEPT !.Compression = TRUE]
C14_Witness ==
  /\ called
  /\ args = WsMap([NoMap EXCEPT !.compression = VBool(TRUE)])
  /\ ret.ok
  /\ ret.cfg.Compression
  /\ ret.cfg.MaxMessageSize = 1048576

\* C15: parseWebSocketConfig reports absence, with the zero Config, when there is no
\* 'websocket' entry and when the entry is not a map; it reports presence for every
\* map, the empty one included.
C15_PresentIffMap ==
  called =>
    IF args.t = "map"
      THEN ret.ok
      ELSE /\ ~ret.ok
           /\ ret.cfg = [ReadBufferSize |-> 0, WriteBufferSize |-> 0,
                         HandshakeTimeout |-> 0, Compression |-> FALSE,
                         Subprotocols |-> <<>>, BackendScheme |-> <<>>,
                         MaxMessageSize |-> 0]
C15_Witness ==
  /\ called
  /\ args = WsOther
  /\ ~ret.ok
C15_WitnessEmptyMap ==
  /\ called
  /\ args = WsMap(NoMap)
  /\ ret.ok

sInvalid == <<"i", "n", "v", "a", "l", "i", "d">>
\* the value of a key is there and has not the shape its field takes
WrongShape(f, v) ==
  /\ v # Absent
  /\ \/ f \in {"ReadBufferSize", "WriteBufferSize", "MaxMessageSize"} /\ v.t # "number"
     \/ f = "Compression" /\ v.t # "bool"
     \/ f = "Subprotocols" /\ v.t # "list"
     \/ f = "BackendScheme" /\ v.t # "string"
     \/ f = "HandshakeTimeout" /\ (v.t # "string" \/ v.s = sInvalid)
\* C16: parseWebSocketConfig on a map never fails: a key whose value has the wrong
\* shape, and a handshake_timeout that is no duration, leave their field at its
\* default, presence is reported, and the well-formed keys take effect.
C16_MalformedFieldIgnored ==
  called /\ args.t = "map" =>
    /\ ret.ok
    /\ \A f \in DOMAIN FieldKey :
         WrongShape(f, args.m[FieldKey[f]]) => ret.cfg[f] = DocumentedDefaults[f]
    /\ args.m.read_buffer_size = VNumber(8192) => ret.cfg.ReadBufferSize = 4096
    /\ args.m.handshake_timeout = VString(<<"3", "0", "s">>) =>
         ret.cfg.HandshakeTimeout = 30000
    /\ args.m.compression = VBool(TRUE) => ret.cfg.Compression
    /\ args.m.backend_scheme = VString(sWss) => ret.cfg.BackendScheme = sWss
C16_Witness ==
  /\ called
  /\ args.t = "map"
  /\ args.m.handshake_timeout = VString(sInvalid)
  /\ args.m.read_buffer_size.t = "string"
  /\ args.m.compression = VBool(TRUE)
  /\ args.m.backend_scheme = VString(sWss)
  /\ ret.ok
  /\ ret.cfg.HandshakeTimeout = 10000
  /\ ret.cfg.ReadBufferSize = 1024
  /\ ret.cfg.Compression

\* the names the documentation lists beside the X-User- names
DocumentedAuthNames ==
  { sAuthorization, sXUserName, sXAuthToken, sXGroupId,
    <<"X", "-", "A", "u", "t", "h", "-", "U", "s", "e", "r">>,
    <<"X", "-", "G", "r", "o", "u", "p", "-", "N", "a", "m", "e">> }
\* C17: a header named Authorization, X-User-Name, X-Auth-Token, X-Auth-User,
\* X-Group-Id or X-Group-Name that the request carries is extracted, with its first
\* value, for the backend connection request.
C17_AuthorizationForwarded ==
  called =>
    \A name \in DOMAIN args :
      name \in DocumentedAuthNames /\ Len(args[name]) > 0 =>
        name \in DOMAIN ret /\ ret[name] = args[name][1]

\* C18: for an upgrade request from which no identity header is extracted, the
\* handshake with the client is not completed (no 101 response) and no backend dial
\* takes place.
C18_UnauthorizedRejected ==
  handler = "websocket" /\ pc # "idle" /\ isUpgrade /\ DOMAIN authHeaders = {} =>
    response # 101 /\ dialCalls = 0

\* a message of n bytes passes the read limit of a connection
WithinLimit(conn, n) == ~(n > conn.readLimit)
\* C19: once the relay tasks are started, a positive MaxMessageSize is the read limit
\* of the client leg and of the backend leg; with a MaxMessageSize of zero or less
\* neither leg limits its messages: a message of any size passes.
C19_ReadLimit ==
  (\E d \in Directions : rpc[d] # "idle") =>
    IF wsConfig.MaxMessageSize > 0
      THEN /\ client.readLimit = wsConfig.MaxMessageSize
           /\ backend.readLimit = wsConfig.MaxMessageSize
      ELSE \A n \in {1, 32768, 32769, 1048577} :
             WithinLimit(client, n) /\ WithinLimit(backend, n)

\* the relay task of a direction has been started and has not returned
Running(d) == rpc[d] \notin {"idle", "done"}
\* C20: when the lifecycle function has returned from a relaying session its context
\* is cancelled, and a relay task that runs under an ended context, or after the
\* handler has returned, terminates, wherever it is in its loop.
C20_RelayTasksTerminate ==
  /\ [](pc = "done" /\ backend.state # "none" => connDone)
  /\ \A d \in Directions : ((ctxDone \/ pc = "done") /\ Running(d)) ~> (rpc[d] = "done")
\* the handler returned on a leg failure without a cancelled request, and the task
\* it did not wait for has ended under the cancelled context, leaving its error
C20_Witness ==
  /\ pc = "done"
  /\ ~parentDone
  /\ connDone
  /\ \A d \in Directions : rpc[d] = "done"
  /\ errChan = <<"read failed: context canceled">>

\* C21: when websocket.Accept fails the caller gets the HTTP 400 response and the
\* request ends there: no address was resolved, nothing was dialed, no connection
\* exists and no relay task was started.
C21_HandshakeFailure ==
  response = 400 =>
    /\ acceptCalls = 1
    /\ pc = "done"
    /\ dialCalls = 0
    /\ dialURL = <<>>
    /\ connectErr = ""
    /\ client.state = "none"
    /\ backend.state = "none"
    /\ \A d \in Directions : rpc[d] = "idle"
C21_Witness ==
  /\ response = 400
  /\ acceptCalls = 1
  /\ isUpgrade
  /\ pc = "done"

\* the status code of the last Close invoked on a connection
LastCloseCode(conn) == conn.closes[Len(conn.closes)].code
\* C22: when a relaying session ends on a leg error (the request was not cancelled),
\* the deferred Close of a leg that is still healthy carries the normal-closure
\* status, be it the backend leg or the client leg.
C22_HealthyLegNormalClosure ==
  [][ /\ (pc = "deferBackendClose" /\ pc' = "deferCancel"
            /\ ~parentDone /\ backend.state = "open")
         => LastCloseCode(backend') = "StatusNormalClosure"
      /\ (pc = "deferClientClose" /\ pc' = "done"
            /\ ~parentDone /\ client.state = "open")
         => LastCloseCode(client') = "StatusNormalClosure" ]_vars

\* the errors that are, or wrap, the context's cancellation reason
CancellationErrors ==
  {"context canceled", "read failed: context canceled", "write failed: context canceled"}
\* C23: the result a relay task returns is never nil; it is or wraps the context's
\* cancellation reason only when the context has ended, and any other result is the
\* error of a Read or Write on a leg that is closed or broken, so a task that stops
\* with both legs healthy returns the cancellation reason.
C23_RelayResult ==
  /\ \A i \in 1..Len(errChan) : errChan[i] # ""
  /\ \A d \in Directions :
       rpc[d] = "send" =>
         /\ rerr[d] # ""
         /\ rerr[d] \in CancellationErrors => ctxDone
         /\ rerr[d] \in {"read failed", "read limited"} => LegOf(SrcLeg(d)).state # "open"
         /\ rerr[d] = "write failed" => LegOf(DestLeg(d)).state # "open"
         /\ rerr[d] \in CancellationErrors
              \cup {"read failed", "read limited", "write failed"}
C23_Witness ==
  /\ rpc["client->backend"] = "send"
  /\ rerr["client->backend"] = "read failed: context canceled"
  /\ rpc["backend->client"] = "send"
  /\ rerr["backend->client"] = "read failed"

\* the lifecycle function has left its select, or has returned
RelayingEnded == pc \in {"deferBackendClose", "deferCancel", "deferClientClose", "done"}
\* C24: within one inbound request the backend is dialed at most once, and in a step
\* taken after a dial failure or after relaying has ended (other than the arrival of
\* the next request) the dial count stays as it is and no relay task is started.
C24_NoRedial ==
  [][ /\ dialCalls' <= 1
      /\ ((connectErr # "" \/ RelayingEnded) /\ ~(pc = "done" /\ pc' = "idle"))
           => /\ dialCalls' = dialCalls
              /\ \A d \in Directions : rpc[d] \in {"idle", "done"} => rpc'[d] = rpc[d] ]_vars
C24_Witness ==
  /\ pc = "done" /\ dialCalls = 1 /\ connectErr = ""
  /\ \A d \in Directions : rpc[d] = "done"
  /\ delivered["backend->client"] # <<>>

\* C25: a backend dial that is pending for a request that is not cancelled comes to
\* an end: the handshake timeout elapses and the dial is abandoned, unless it has
\* completed or the request was cancelled before.
C25_PendingDialEnds ==
  (pc = "dial" /\ ~parentDone) ~> (pc # "dial" \/ parentDone)

\* C26: a configuration reported as present has a positive read buffer size and a
\* positive write buffer size, whatever numbers the map gives under read_buffer_size
\* and write_buffer_size.
C26_PositiveBufferSizes ==
  called /\ ret.ok => ret.cfg.ReadBufferSize > 0 /\ ret.cfg.WriteBufferSize > 0

\* C27: a relay task that reports its result finds a free slot in the result channel:
\* the channel never holds more than two results, each result in it was sent by a
\* task that has returned, and the send of a task is enabled in every state in which
\* the task is at it, also when the lifecycle function has returned.
C27_SendNeverBlocks ==
  /\ Len(errChan) <= 2
  /\ Len(errChan) <= Cardinality({d \in Directions : rpc[d] = "done"})
  /\ \A d \in Directions : rpc[d] = "send" => ENABLED RelaySend(d)
\* the lifecycle function returned on the request's cancellation without receiving,
\* one result is in the channel and the other task is about to send
C27_Witness ==
  /\ pc = "done"
  /\ Len(errChan) = 1
  /\ rpc["client->backend"] = "done"
  /\ rpc["backend->client"] = "send"

\* C28: an upgrade request on a tunnel endpoint with an empty backend list, the named
\* shape included, ends with the HTTP 500 response: websocket.Accept is not called,
\* connectToBackend is not called (nothing dialed, no connect error, no connection);
\* whenever the handshake has been attempted the backend list is not empty, so the
\* error for a missing backend never comes out of a request.
C28_EmptyBackendList ==
  /\ (handler = "websocket" /\ pc # "idle" /\ isUpgrade /\ Len(endpoint.Backend) = 0) =>
       /\ response = 500
       /\ pc = "done"
       /\ acceptCalls = 0
       /\ dialCalls = 0
       /\ connectErr = ""
       /\ client.state = "none"
       /\ backend.state = "none"
  /\ (acceptCalls > 0 \/ dialCalls > 0 \/ connectErr # "") => Len(endpoint.Backend) > 0
  /\ connectErr # "no backend configured for WebSocket endpoint"
C28_Witness ==
  /\ endpoint = Endpoints[5]
  /\ endpoint.backend.t = "string"
  /\ isUpgrade
  /\ response = 500
  /\ pc = "done"

\* C29: connectToBackend on an endpoint whose extra config has a backend name and no
\* string under backend_path dials nothing and returns the error for the missing
\* path, also when the first backend of the list has a usable host.
C29_NoFallbackToHostList ==
  (endpoint.backend.t = "string" /\ endpoint.backend_path.t # "string") =>
    /\ dialCalls = 0
    /\ dialURL = <<>>
    /\ pc # "dial"
    /\ called => ret = "no backend_path configured in endpoint"
C29_Witness ==
  /\ called
  /\ endpoint.backend.t = "string"
  /\ endpoint.backend_path = Absent
  /\ Len(endpoint.Backend) > 0
  /\ endpoint.Backend[1].Host = <<sHostHttp>>
  /\ ret = "no backend_path configured in endpoint"

\* C30: the supplied handler factory is invoked once when the handler of a non-tunnel
\* endpoint is built and not when the handler of a tunnel endpoint is built; on a
\* tunnel endpoint each request that is not an upgrade invokes it once, for the same
\* endpoint, and no other step invokes it: not an upgrade request, not a request on
\* a non-tunnel endpoint.
C30_FactoryInvocations ==
  [][ /\ factoryCalls' = factoryCalls +
            (IF handler = "none" /\ handler' = "standard" THEN 1
             ELSE IF handler = "websocket" /\ requests' = requests + 1 /\ ~isUpgrade'
               THEN 1
             ELSE 0)
      /\ handler # "none" => endpoint' = endpoint ]_vars
\* two requests that are not upgrades on a tunnel endpoint: two invocations
C30_Witness ==
  /\ handler = "websocket"
  /\ requests = 2
  /\ ~isUpgrade
  /\ pc = "done"
  /\ factoryCalls = 2

\* the calls, among the first n, whose service config has a 'websocket_backends' map
MapCalls(n) == {i \in 1..n : args[i].t = "map"}
\* the greatest element of a non-empty set of numbers
Latest(S) == CHOOSE i \in S : \A j \in S : j <= i
\* the string-valued entries under 'backends' of a service config
StringEntries(c) ==
  IF c.bt = "map"
    THEN [name \in {k \in DOMAIN c.m : c.m[k].t = "string"} |-> c.m[name].s]
    ELSE <<>>
\* C31: after one or more calls of InitializeBackendRegistry or NewWithConfig the
\* registry is not nil and its entries are the string-valued entries of the latest
\* call whose service config had a 'websocket_backends' map, none when no call had
\* one: a call without the map changes nothing, a call with it replaces everything.
C31_RegistryOfLatestMap ==
  called =>
    /\ ~registry.isNil
    /\ registry.Backends =
         (IF MapCalls(Len(args)) = {} THEN <<>>
          ELSE StringEntries(args[Latest(MapCalls(Len(args)))]))
\* a registry with albus, replaced by one with svc only, kept by a call without map
C31_Witness ==
  /\ called
  /\ wrapped
  /\ Len(args) = 3
  /\ args[1] = RegistryConfigs[4]
  /\ args[2] = RegistryConfigs[5]
  /\ args[3] = RegistryConfigs[1]
  /\ registry.Backends = (sSvc :> sRegistryHTTP)
====
